---- MODULE Spec2Model ----
(***************************************************************************)
(* A model of the gap-buffer text store, the undo/redo history and the     *)
(* key handlers of ede (src/ede.c).                                        *)
(*                                                                         *)
(* Characters and keys are their ASCII codes.  A GapBuffer is a record     *)
(* with the fields of the C struct; the functions of the source are        *)
(* operators from records to records, and each handler is one action.      *)
(* Two model-level fields accompany the struct:                            *)
(*   fault    "none" while the execution is defined; "corrupt" after a     *)
(*            memmove/store outside the allocation, "crash" after a copy   *)
(*            whose length wrapped around, "uninit" after a read of a      *)
(*            history field that buffer_create never initialised.  No      *)
(*            code is modelled once a fault is recorded.                   *)
(*   hist_ok  the outcome of malloc in buffer_create for the four history  *)
(*            fields: TRUE when they read as NULL/0, FALSE when they are   *)
(*            indeterminate.                                               *)
(***************************************************************************)
EXTENDS Integers, Sequences, FiniteSets, TLC

VARIABLES
    buffer,          \* GapBuffer of the open file (fb->buffer)
    file_count,      \* tab->file_count
    has_filepath,    \* fb->filepath != NULL
    modified,        \* fb->modified
    cursor_row,      \* fb->cursor_row
    cursor_col,      \* fb->cursor_col
    status_message,  \* g_state.status_message
    disk,            \* bytes of the file at fb->filepath
    orig,            \* history: logical content when the file was opened
    tip,             \* history: logical content after the last recorded edit
    recorded,        \* history: number of edits followed by undo_push (capped)
    unrecorded,      \* history: an edit was made without undo_push
    evicted,         \* history: undo_push dropped an entry
    last,            \* history: the handler that ran last
    steps,           \* history: number of handlers run
    script,          \* position in the insert/delete/undo/redo scenario
    search,          \* fb->search
    line_count,      \* fb->line_count
    ret,             \* history: value returned by the last search function
    viewport,        \* fb->row_offset, fb->col_offset
    modules,         \* g_state.modules
    module_count,    \* g_state.module_count
    hooks,           \* history: module loads and hook calls
    pc,              \* position of main / editor_run
    last_key,        \* g_state.last_key: the key terminal_get_key returned
    mode,            \* g_state.mode
    exit_command,    \* g_state.exit_command
    running,         \* g_state.running
    console,         \* the console's output mode, and the mode before main
    proc,            \* main: argv, compile outcome, exit code
    tabs,            \* g_state.tabs: the names of the tabs
    tab_count,       \* g_state.tab_count
    active_tab,      \* g_state.active_tab
    clipboard,       \* g_state.clipboard
    selection,       \* fb->selection
    screen_rows,     \* g_state.screen_rows
    screen,          \* the rows editor_refresh_screen printed last
    highlight,       \* the classes render_syntax_highlighted_line printed
    compiler,        \* esrc_compile: the files it wrote and its result
    lexer,           \* EsrcLexer and the read function it is in
    heap             \* history: per FileBuffer malloc'ed, the times it was freed

coreVars == <<buffer, file_count, has_filepath, modified, cursor_row,
              cursor_col, status_message, disk, orig, tip, recorded,
              unrecorded, evicted, last>>
fileVars == <<buffer, file_count, has_filepath, modified, cursor_row,
              cursor_col, disk, orig, tip, recorded, unrecorded, evicted>>
searchVars == <<search, line_count, ret>>
moduleVars == <<modules, module_count, hooks>>
mainVars == <<pc, last_key, mode, exit_command, running, console, proc, viewport>>
tabVars == <<tabs, tab_count, active_tab, heap>>
clipVars == <<clipboard, selection>>
screenVars == <<screen_rows, screen, highlight>>
editorVars == <<tabVars, clipVars, screenVars, compiler, lexer>>

vars == <<coreVars, steps, script, searchVars, moduleVars, mainVars,
         editorVars>>

(***************************************************************************)
(* Constants of the source and bounds of the model.                        *)
(***************************************************************************)
MAX_LINE_LENGTH == 4096

\* The source has INITIAL_BUFFER_SIZE 1024 and MAX_UNDO_LEVELS 100; the
\* model keeps the code and runs it with a small capacity.
INITIAL_BUFFER_SIZE == 5
MAX_UNDO_LEVELS == 2

\* size_t arithmetic is modular; the modulus stands for 2^32 or 2^64.
SIZE_T_MOD == 2^30

\* A byte that malloc left indeterminate.
INDETERMINATE == 256

MaxFileLen == INITIAL_BUFFER_SIZE + 1
MaxGotoLine == 2
MaxSteps == 7

Chars == {97, 98}
OP_INSERT == "OP_INSERT"
OP_DELETE == "OP_DELETE"
MODE_NORMAL == "MODE_NORMAL"
MODE_EXIT_CONFIRM == "MODE_EXIT_CONFIRM"
MODE_VISUAL == "MODE_VISUAL"
ENABLE_VIRTUAL_TERMINAL_PROCESSING == "ENABLE_VIRTUAL_TERMINAL_PROCESSING"

\* Rows of the console window when no claim depends on them.
DefaultScreenRows == 8

\* The source has MAX_MODULES 16.
MAX_MODULES == 2

Pattern(n) == [i \in 1..n |-> IF i % 2 = 1 THEN 97 ELSE 98]
Files == {Pattern(n) : n \in 0..MaxFileLen}
ApiTexts == {<<98, 97>>}

SubSz(a, b) == (a - b + SIZE_T_MOD) % SIZE_T_MOD

(***************************************************************************)
(* Gap buffer.                                                             *)
(***************************************************************************)
NoBuffer ==
    [content |-> <<>>, gap_start |-> 0, gap_end |-> 0, buffer_size |-> 0,
     undo_stack |-> <<>>, redo_stack |-> <<>>, undo_count |-> 0,
     redo_count |-> 0, hist_ok |-> TRUE, fault |-> "none"]

buffer_create(zeroed) ==
    [content |-> [i \in 1..INITIAL_BUFFER_SIZE |-> INDETERMINATE],
     gap_start |-> 0, gap_end |-> INITIAL_BUFFER_SIZE,
     buffer_size |-> INITIAL_BUFFER_SIZE,
     undo_stack |-> <<>>, redo_stack |-> <<>>, undo_count |-> 0,
     redo_count |-> 0, hist_ok |-> zeroed, fault |-> "none"]

\* The logical text: the bytes buffer_save_file writes.
Text(buf) ==
    SubSeq(buf.content, 1, buf.gap_start)
        \o SubSeq(buf.content, buf.gap_end + 1, buf.buffer_size)

\* memmove(content + dst, content + src, n), all of it inside the allocation.
MemMove(content, dst, src, n) ==
    [i \in 1..Len(content) |->
        IF i - 1 >= dst /\ i - 1 < dst + n
        THEN content[(i - 1) - dst + src + 1]
        ELSE content[i]]

RECURSIVE Doubled(_, _)
Doubled(n, min_size) == IF n < min_size THEN Doubled(n * 2, min_size) ELSE n

buffer_grow(buf, min_size) ==
    LET new_size == Doubled(buf.buffer_size * 2, min_size)
        new_gap_end == SubSz(new_size, SubSz(buf.buffer_size, buf.gap_end))
        \* the second memcpy reads buf->gap_end after line 798 changed it
        src == SubSz(buf.buffer_size, SubSz(buf.buffer_size, new_gap_end))
        len == SubSz(buf.buffer_size, new_gap_end)
        fresh == [i \in 1..new_size |->
                    IF i <= buf.gap_start THEN buf.content[i]
                    ELSE INDETERMINATE]
    IN  IF len = 0
        THEN [buf EXCEPT !.content = fresh, !.gap_end = new_gap_end,
                         !.buffer_size = new_size]
        ELSE IF src + len > buf.buffer_size \/ new_gap_end + len > new_size
        THEN [buf EXCEPT !.fault = "crash", !.gap_end = new_gap_end]
        ELSE [buf EXCEPT
                !.content = [i \in 1..new_size |->
                    IF i - 1 >= new_gap_end /\ i - 1 < new_gap_end + len
                    THEN buf.content[(i - 1) - new_gap_end + src + 1]
                    ELSE fresh[i]],
                !.gap_end = new_gap_end, !.buffer_size = new_size]

buffer_insert_char(buf, c, pos) ==
    IF buf.fault # "none" THEN buf ELSE
    LET b1 == IF SubSz(buf.gap_end, buf.gap_start) = 0
              THEN buffer_grow(buf, buf.buffer_size + 1) ELSE buf
    IN  IF b1.fault # "none" THEN b1 ELSE
        LET gs == b1.gap_start
            ge == b1.gap_end
            n  == SubSz(pos, gs)
            actual_pos == pos + SubSz(ge, gs)
            b2 == IF pos < gs THEN
                      [b1 EXCEPT !.content = MemMove(@, pos + 1, pos, gs - pos),
                                 !.gap_start = pos + 1]
                  ELSE IF pos > gs THEN
                      IF actual_pos + n > b1.buffer_size \/ ge + n > b1.buffer_size
                      THEN [b1 EXCEPT !.fault = "corrupt",
                                      !.gap_end = ge + n, !.gap_start = pos]
                      ELSE [b1 EXCEPT !.content = MemMove(@, ge, actual_pos, n),
                                      !.gap_end = ge + n, !.gap_start = pos]
                  ELSE b1
        IN  IF b2.fault = "none" /\ b2.gap_start < b2.buffer_size
            THEN [b2 EXCEPT !.content[b2.gap_start + 1] = c, !.gap_start = @ + 1]
            ELSE [b2 EXCEPT !.fault = "corrupt", !.gap_start = @ + 1]

buffer_delete_char(buf, pos) ==
    IF buf.fault # "none" THEN buf ELSE
    IF pos >= buf.gap_start THEN
        LET actual_pos == pos + SubSz(buf.gap_end, buf.gap_start)
        IN  IF actual_pos < buf.buffer_size
            THEN [buf EXCEPT !.gap_end = @ + 1] ELSE buf
    ELSE [buf EXCEPT !.gap_start = @ - 1]

\* fopen(filepath, "rb") succeeded iff rd_ok.
buffer_load_file(buf, file, rd_ok) ==
    IF ~rd_ok THEN buf ELSE
    LET size == Len(file)
        b1 == IF size > buf.buffer_size THEN buffer_grow(buf, size) ELSE buf
    IN  IF b1.fault # "none" THEN b1 ELSE
        [b1 EXCEPT !.content = [i \in 1..Len(@) |->
                                   IF i <= size THEN file[i] ELSE @[i]],
                   !.gap_start = size]

\* fopen(filepath, "wb") succeeded iff wr_ok; the result is the file's bytes.
buffer_save_file(buf, old, wr_ok) ==
    IF ~wr_ok THEN old ELSE Text(buf)

(***************************************************************************)
(* Undo/redo history.  A stack is a sequence with its top first; the next  *)
(* and prev links of the source are the order of the sequence.             *)
(***************************************************************************)
undo_create_entry(type, position, data) ==
    [type |-> type, position |-> position, data |-> data]

undo_evict_none(buf) == buf

\* undo_push, "Remove oldest undo entry"
undo_evict_oldest(buf) ==
    IF buf.undo_count >= MAX_UNDO_LEVELS THEN
        IF buf.undo_stack = <<>> THEN buf
        ELSE IF Len(buf.undo_stack) = 1
        \* oldest has no prev: undo_stack keeps pointing at the freed entry
        THEN [buf EXCEPT !.fault = "corrupt", !.undo_count = @ - 1]
        ELSE [buf EXCEPT !.undo_stack = SubSeq(@, 1, Len(@) - 1),
                         !.undo_count = @ - 1]
    ELSE buf

undo_push(buf, type, position, data) ==
    IF buf.fault # "none" THEN buf ELSE
    IF ~buf.hist_ok THEN [buf EXCEPT !.fault = "uninit"] ELSE
    LET b1 == undo_evict_oldest(buf)
    IN  [b1 EXCEPT
            !.undo_stack = <<undo_create_entry(type, position, data)>> \o @,
            !.undo_count = @ + 1,
            !.redo_stack = <<>>,
            !.redo_count = 0]

\* for (i = 0; i < data_len; i++) buffer_delete_char(buf, position);
RECURSIVE DeleteLoop(_, _, _)
DeleteLoop(buf, position, n) ==
    IF n = 0 THEN buf
    ELSE DeleteLoop(buffer_delete_char(buf, position), position, n - 1)

\* for (i = 0; i < data_len; i++) buffer_insert_char(buf, data[i], position + i);
RECURSIVE InsertLoop(_, _, _, _)
InsertLoop(buf, data, position, i) ==
    IF i >= Len(data) THEN buf
    ELSE InsertLoop(buffer_insert_char(buf, data[i + 1], position + i),
                    data, position, i + 1)

\* undo_perform, "Apply undo operation"
undo_apply(buf, entry) ==
    IF entry.type = OP_INSERT
    THEN DeleteLoop(buf, entry.position, Len(entry.data))
    ELSE IF entry.type = OP_DELETE
    THEN InsertLoop(buf, entry.data, entry.position, 0)
    ELSE buf

undo_move_to_redo_bottom(buf, entry) ==
    [buf EXCEPT !.redo_stack = @ \o <<entry>>, !.redo_count = @ + 1]

\* undo_perform, "Move to redo stack"
undo_move_to_redo(buf, entry) ==
    [buf EXCEPT !.redo_stack = <<entry>> \o @, !.redo_count = @ + 1]

undo_perform_unguarded(buf) ==
    IF buf.fault # "none" THEN buf ELSE
    IF ~buf.hist_ok THEN [buf EXCEPT !.fault = "uninit"] ELSE
    IF buf.undo_stack = <<>> THEN [buf EXCEPT !.fault = "crash"] ELSE
    LET entry == Head(buf.undo_stack)
        b1 == [buf EXCEPT !.undo_stack = Tail(@), !.undo_count = @ - 1]
        b2 == undo_apply(b1, entry)
    IN  IF b2.fault = "crash" THEN b2 ELSE undo_move_to_redo(b2, entry)

undo_perform(buf) ==
    IF buf.fault # "none" THEN buf ELSE
    IF ~buf.hist_ok THEN [buf EXCEPT !.fault = "uninit"] ELSE
    IF buf.undo_stack = <<>> THEN buf ELSE
    LET entry == Head(buf.undo_stack)
        b1 == [buf EXCEPT !.undo_stack = Tail(@), !.undo_count = @ - 1]
        b2 == undo_apply(b1, entry)
    IN  IF b2.fault = "crash" THEN b2 ELSE undo_move_to_redo(b2, entry)

redo_apply_nothing(buf, entry) == buf

\* redo_perform, "Apply redo operation"
redo_apply(buf, entry) ==
    IF entry.type = OP_INSERT
    THEN InsertLoop(buf, entry.data, entry.position, 0)
    ELSE IF entry.type = OP_DELETE
    THEN DeleteLoop(buf, entry.position, Len(entry.data))
    ELSE buf

\* redo_perform, "Move back to undo stack"
redo_move_to_undo(buf, entry) ==
    [buf EXCEPT !.undo_stack = <<entry>> \o @, !.undo_count = @ + 1]

redo_perform(buf) ==
    IF buf.fault # "none" THEN buf ELSE
    IF ~buf.hist_ok THEN [buf EXCEPT !.fault = "uninit"] ELSE
    IF buf.redo_stack = <<>> THEN buf ELSE
    LET entry == Head(buf.redo_stack)
        b1 == [buf EXCEPT !.redo_stack = Tail(@), !.redo_count = @ - 1]
        b2 == redo_apply(b1, entry)
    IN  IF b2.fault = "crash" THEN b2 ELSE redo_move_to_undo(b2, entry)

(***************************************************************************)
(* Search.  A FileBuffer is passed to the search functions as the record   *)
(* Fb of the fields they read and write; rv is the value they return.      *)
(***************************************************************************)
NEWLINE == 10

tolower(c) == IF c >= 65 /\ c <= 90 THEN c + 32 ELSE c

Lower(s) == [i \in 1..Len(s) |-> tolower(s[i])]

\* strstr(text, pattern) != NULL
strstr(text, pattern) ==
    \E i \in 0..(Len(text) - Len(pattern)) :
        SubSeq(text, i + 1, i + Len(pattern)) = pattern

search_match(text, pattern, case_sensitive) ==
    IF case_sensitive THEN strstr(text, pattern)
    ELSE strstr(Lower(text), Lower(pattern))

\* buffer_get_line: the loop over pos, then the code after the loop.
\* ok is FALSE when the function returns NULL.
RECURSIVE GetLineScan(_, _, _, _, _)
GetLineScan(buf, line_num, pos, current_line, acc) ==
    LET after == IF current_line = line_num
                 THEN [ok |-> TRUE, line |-> acc]
                 ELSE [ok |-> FALSE, line |-> <<>>]
    IN  IF ~(pos < buf.gap_start \/ pos >= buf.gap_end) THEN after
        ELSE IF ~(pos < buf.gap_start \/ pos < buf.buffer_size) THEN after
        ELSE
            LET c == buf.content[pos + 1]
                nxt == IF pos + 1 = buf.gap_start THEN buf.gap_end ELSE pos + 1
            IN  IF current_line = line_num THEN
                    IF c = NEWLINE THEN [ok |-> TRUE, line |-> acc]
                    ELSE IF Len(acc) + 1 >= MAX_LINE_LENGTH - 1
                    THEN [ok |-> TRUE, line |-> Append(acc, c)]
                    ELSE GetLineScan(buf, line_num, nxt, current_line,
                                     Append(acc, c))
                ELSE GetLineScan(buf, line_num, nxt,
                                 IF c = NEWLINE THEN current_line + 1
                                 ELSE current_line, acc)

buffer_get_line(buf, line_num) == GetLineScan(buf, line_num, 0, 0, <<>>)

\* &line[col]: the text from column col to the terminator
LineFrom(line, col) == SubSeq(line, col + 1, Len(line))

Minimum(S) == CHOOSE x \in S : \A y \in S : x <= y
Maximum(S) == CHOOSE x \in S : \A y \in S : x >= y

\* The rows of search_find_next from row on; start_col applies to start_row.
RECURSIVE FindNextRow(_, _, _, _)
FindNextRow(fb, row, start_row, start_col) ==
    IF row >= fb.line_count THEN [fb EXCEPT !.rv = 0]
    ELSE
        LET got == buffer_get_line(fb.buffer, row)
            first == IF row = start_row THEN start_col ELSE 0
            cols == IF ~got.ok THEN {}
                    ELSE {col \in first..(Len(got.line) - 1) :
                            search_match(LineFrom(got.line, col),
                                         fb.search.pattern,
                                         fb.search.case_sensitive)}
        IN  IF cols # {}
            THEN [fb EXCEPT !.cursor_row = row,
                            !.cursor_col = Minimum(cols),
                            !.search.current_match = @ + 1,
                            !.rv = 1]
            ELSE FindNextRow(fb, row + 1, start_row, start_col)

search_find_next_from_cursor(fb) ==
    IF fb.search.pattern = <<>> THEN [fb EXCEPT !.rv = -1]
    ELSE FindNextRow(fb, fb.cursor_row, fb.cursor_row, fb.cursor_col)

search_find_next(fb) ==
    IF fb.search.pattern = <<>> THEN [fb EXCEPT !.rv = -1]
    ELSE FindNextRow(fb, fb.cursor_row, fb.cursor_row, fb.cursor_col + 1)

\* The rows of search_find_prev from row down to 0.
RECURSIVE FindPrevRow(_, _, _, _)
FindPrevRow(fb, row, start_row, start_col) ==
    IF row < 0 THEN [fb EXCEPT !.rv = 0]
    ELSE
        LET got == buffer_get_line(fb.buffer, row)
            first == IF row = start_row THEN start_col ELSE Len(got.line) - 1
            cols == IF ~got.ok THEN {}
                    ELSE {col \in 0..first :
                            /\ col <= Len(got.line)
                            /\ search_match(LineFrom(got.line, col),
                                            fb.search.pattern,
                                            fb.search.case_sensitive)}
        IN  IF cols # {}
            THEN [fb EXCEPT !.cursor_row = row,
                            !.cursor_col = Maximum(cols),
                            !.search.current_match = @ - 1,
                            !.rv = 1]
            ELSE FindPrevRow(fb, row - 1, start_row, start_col)

search_find_prev(fb) ==
    IF fb.search.pattern = <<>> THEN [fb EXCEPT !.rv = -1]
    ELSE FindPrevRow(fb, fb.cursor_row, fb.cursor_row, fb.cursor_col - 1)

search_replace_current(fb) ==
    IF fb.search.pattern = <<>> \/ fb.search.replace_text = <<>> THEN fb
    ELSE IF ~buffer_get_line(fb.buffer, fb.cursor_row).ok THEN fb
    ELSE
        LET pos == fb.cursor_row * MAX_LINE_LENGTH + fb.cursor_col
            b1 == DeleteLoop(fb.buffer, pos, Len(fb.search.pattern))
            b2 == InsertLoop(b1, fb.search.replace_text, pos, 0)
        IN  [fb EXCEPT !.buffer = b2, !.modified = TRUE]

\* while (search_find_next(fb) > 0) { search_replace_current(fb); count++; }
RECURSIVE ReplaceAllLoop(_, _)
ReplaceAllLoop(fb, count) ==
    LET found == search_find_next(fb)
    IN  IF found.rv > 0 /\ found.buffer.fault = "none"
        THEN ReplaceAllLoop(search_replace_current(found), count + 1)
        ELSE [found EXCEPT !.rv = count]

search_replace_all(fb) ==
    ReplaceAllLoop([fb EXCEPT !.cursor_row = 0, !.cursor_col = 0], 0)

(***************************************************************************)
(* Initial state: editor_init has created the first tab, no file is open.  *)
(***************************************************************************)
Free == [mode |-> "free", step |-> 0, snap |-> <<>>]

InitFields ==
    /\ buffer = NoBuffer
    /\ file_count = 0
    /\ has_filepath = FALSE
    /\ modified = FALSE
    /\ cursor_row = 0
    /\ cursor_col = 0
    /\ status_message = "GNU ede - Press Ctrl+Q to exit"
    /\ orig = <<>>
    /\ tip = <<>>
    /\ recorded = 0
    /\ unrecorded = FALSE
    /\ evicted = FALSE
    /\ last = "editor_init"

\* fb->search and fb->line_count while no search is made.
SearchIdle ==
    /\ search = [pattern |-> <<>>, replace_text |-> <<>>,
                 case_sensitive |-> FALSE, whole_word |-> FALSE,
                 current_match |-> 0]
    /\ line_count = 1
    /\ ret = 0

\* g_state is a zero-initialised global: no module is loaded.
NoModule ==
    [id |-> 0, handle |-> "null", init |-> FALSE, on_key |-> FALSE,
     on_save |-> FALSE, enabled |-> FALSE]

\* No on_key hook has been called for the key in hand.
NotNotified == [code |-> -1, ids |-> {}]

ModulesIdle ==
    /\ modules = [i \in 0..(MAX_MODULES - 1) |-> NoModule]
    /\ module_count = 0
    /\ hooks = [loads |-> 0, failed |-> {}, called |-> {},
                notified |-> NotNotified, saved |-> {}]

NoKey == [code |-> -1, extended |-> FALSE]

NoArgs ==
    [argv |-> <<>>, compile_mode |-> FALSE, early |-> FALSE,
     module_file |-> FALSE, has_files |-> FALSE, compiled |-> FALSE,
     terminal_inited |-> TRUE,
     loop_ran |-> TRUE, prompt_keys |-> 0, exit_code |-> 0]

\* The source has MAX_FILES_PER_TAB 16.
MAX_FILES_PER_TAB == 3

\* tab_init(tab, name); id is a history label that tells the tabs apart.
\* files holds the FileBuffer pointers, 0 for NULL; a pointer is the index of
\* its FileBuffer in heap.
tab_init(name, id) ==
    [name |-> name, id |-> id, file_count |-> 0, active_file |-> 0,
     files |-> [i \in 0..(MAX_FILES_PER_TAB - 1) |-> 0]]

\* tab_add_file(tab, filepath), as far as the tab goes: fb is the FileBuffer
\* malloc returns.
tab_files_add(tab, fb) ==
    IF tab.file_count >= MAX_FILES_PER_TAB THEN tab
    ELSE [tab EXCEPT !.files[tab.file_count] = fb, !.file_count = @ + 1]

\* malloc(sizeof(FileBuffer)) in tab_add_file, which is not reached when the
\* tab is full
FileMalloc(hp, tab) ==
    IF tab.file_count >= MAX_FILES_PER_TAB THEN hp ELSE Append(hp, 0)

\* free(fb)
FileFree(hp, fb) ==
    IF fb \in 1..Len(hp) THEN [hp EXCEPT ![fb] = @ + 1] ELSE hp

\* tab_close_file(tab, file_idx), as far as the tab goes: the pointers above
\* file_idx move down one slot; the last slot and active_file are left as
\* they are.
tab_close_file(tab, file_idx) ==
    IF file_idx < 0 \/ file_idx >= tab.file_count THEN tab
    ELSE [tab EXCEPT
             !.files = [i \in 0..(MAX_FILES_PER_TAB - 1) |->
                           IF i >= file_idx /\ i < tab.file_count - 1
                           THEN tab.files[i + 1] ELSE tab.files[i]],
             !.file_count = @ - 1]

\* The FileBuffer tab_close_file(tab, file_idx) frees, 0 when it returns early.
ClosedFile(tab, file_idx) ==
    IF file_idx < 0 \/ file_idx >= tab.file_count THEN 0
    ELSE tab.files[file_idx]

NoSelection ==
    [active |-> FALSE, start_row |-> 0, start_col |-> 0, end_row |-> 0,
     end_col |-> 0]

NoClipboard == [content |-> <<>>, is_line_mode |-> FALSE]

NoHighlight == [rows |-> <<>>, classes |-> <<>>]

NoCompile ==
    [source |-> <<>>, c_file |-> <<>>, c_exists |-> FALSE,
     emod_exists |-> FALSE, error_count |-> 0, rv |-> 0, done |-> FALSE]

\* No source is being read.  in is the function the lexer is in ("none"
\* between tokens, "eof" after ESRC_TOKEN_EOF), i the index into its local
\* buffer, calls the number of tokens asked for and rounds the number of
\* loop iterations made.
NoLexer ==
    [source |-> <<>>, position |-> 0, in |-> "eof", i |-> 0, calls |-> 0,
     rounds |-> 0]

\* editor_init has made the tab "untitled"; nothing is selected, copied,
\* drawn or compiled.
EditorIdle ==
    /\ tabs = <<tab_init("untitled", 0)>>
    /\ tab_count = 1
    /\ active_tab = 0
    /\ heap = <<>>
    /\ clipboard = NoClipboard
    /\ selection = NoSelection
    /\ screen_rows = DefaultScreenRows
    /\ screen = <<>>
    /\ highlight = NoHighlight
    /\ compiler = NoCompile
    /\ lexer = NoLexer

\* main has run editor_init and stands in editor_run, in MODE_NORMAL.
MainIdle ==
    /\ pc = "editor_run"
    /\ last_key = NoKey
    /\ mode = MODE_NORMAL
    /\ exit_command = <<>>
    /\ running = TRUE
    /\ console = [mode |-> {ENABLE_VIRTUAL_TERMINAL_PROCESSING},
                  orig |-> {ENABLE_VIRTUAL_TERMINAL_PROCESSING},
                  tty |-> TRUE]
    /\ proc = NoArgs
    /\ viewport = [row_offset |-> 0, col_offset |-> 0]
    /\ EditorIdle

Init ==
    /\ InitFields
    /\ disk \in Files
    /\ steps = 0
    /\ script = Free
    /\ SearchIdle
    /\ ModulesIdle
    /\ MainIdle

\* One handler of a free run: counted, and outside the scenario.  The
\* handlers that use it touch neither the search state, the modules nor main.
Tick ==
    /\ steps < MaxSteps
    /\ steps' = steps + 1
    /\ UNCHANGED <<script, searchVars, moduleVars, mainVars,
                   editorVars>>

Running == file_count > 0 /\ buffer.fault = "none"

\* size_t pos = fb->cursor_row * MAX_LINE_LENGTH + fb->cursor_col
CursorPos == cursor_row * MAX_LINE_LENGTH + cursor_col

(***************************************************************************)
(* Handlers.  The *Step definitions leave script to the caller.            *)
(***************************************************************************)
\* tab_add_file(tab, filepath): filepath is NULL iff ~with_path.
AddFileStep(with_path, zeroed, rd_ok) ==
    /\ file_count = 0
    /\ LET b == IF with_path
                THEN buffer_load_file(buffer_create(zeroed), disk, rd_ok)
                ELSE buffer_create(zeroed)
       IN  /\ buffer' = b
           /\ orig' = IF b.fault = "none" THEN Text(b) ELSE <<>>
           /\ tip' = IF b.fault = "none" THEN Text(b) ELSE <<>>
    /\ file_count' = 1
    /\ has_filepath' = with_path
    /\ modified' = FALSE
    /\ cursor_row' = 0
    /\ cursor_col' = 0
    /\ last' = "tab_add_file"
    /\ UNCHANGED <<status_message, disk, recorded, unrecorded, evicted>>

tab_add_file(with_path, zeroed, rd_ok) ==
    AddFileStep(with_path, zeroed, rd_ok) /\ Tick

\* editor_process_key, "Regular text input": a printable key or Backspace (8).
\* Returns the buffer after the key; the cursor moves as the code moves it.
KeyBuffer(buf, key) ==
    IF key >= 32 /\ key < 127 THEN buffer_insert_char(buf, key, CursorPos)
    ELSE IF key = 8 /\ cursor_col > 0
    THEN buffer_delete_char(buf, CursorPos - 1)
    ELSE buf

KeyCol(key) ==
    IF key >= 32 /\ key < 127 THEN cursor_col + 1
    ELSE IF key = 8 /\ cursor_col > 0 THEN cursor_col - 1
    ELSE cursor_col

KeyEdits(key) == (key >= 32 /\ key < 127) \/ (key = 8 /\ cursor_col > 0)

\* editor_process_key(key) in MODE_NORMAL for the keys the model types:
\* printable characters, Backspace and Ctrl+S (19, fopen succeeds iff wr_ok),
\* and Ctrl+Y (25) and Ctrl+Z (26), for which the function has no branch and
\* which fall through "Regular text input" without effect.
KeyStep(key, wr_ok) ==
    /\ Running
    /\ IF key = 19 THEN
          /\ IF has_filepath
             THEN /\ disk' = buffer_save_file(buffer, disk, wr_ok)
                  /\ modified' = FALSE
                  /\ status_message' = "Saved"
             ELSE UNCHANGED <<disk, modified, status_message>>
          /\ UNCHANGED <<buffer, cursor_col, unrecorded>>
       ELSE
          /\ buffer' = KeyBuffer(buffer, key)
          /\ cursor_col' = KeyCol(key)
          /\ modified' = (modified \/ KeyEdits(key))
          /\ unrecorded' = (unrecorded \/ KeyEdits(key))
          /\ UNCHANGED <<disk, status_message>>
    /\ last' = IF key = 19 THEN "ctrl_s"
               ELSE IF key = 26 THEN "ctrl_z"
               ELSE IF key = 25 THEN "ctrl_y"
               ELSE "key"
    /\ UNCHANGED <<file_count, has_filepath, cursor_row, orig, tip, recorded,
                   evicted>>

editor_process_key(key, wr_ok) == KeyStep(key, wr_ok) /\ Tick

\* A client of the history as section 4.4 of the specification describes
\* it: the key's mutation followed by undo_push of the inserted or deleted
\* character at the position the mutation was given.  No handler of the
\* source makes this call.
RecordedStep(key) ==
    /\ Running
    /\ KeyEdits(key)
    /\ cursor_row = 0
    /\ key = 8 => cursor_col <= Len(Text(buffer))
    /\ LET pos == IF key = 8 THEN CursorPos - 1 ELSE CursorPos
           b1 == KeyBuffer(buffer, key)
           b2 == IF key = 8
                 THEN undo_push(b1, OP_DELETE, pos, <<Text(buffer)[pos + 1]>>)
                 ELSE undo_push(b1, OP_INSERT, pos, <<key>>)
       IN  /\ buffer' = b2
           /\ tip' = IF b2.fault = "none" THEN Text(b2) ELSE tip
           /\ evicted' = (evicted \/ buffer.undo_count >= MAX_UNDO_LEVELS)
    /\ cursor_col' = KeyCol(key)
    /\ modified' = TRUE
    /\ recorded' = IF recorded < MAX_UNDO_LEVELS + 1 THEN recorded + 1 ELSE recorded
    /\ last' = "recorded_edit"
    /\ UNCHANGED <<file_count, has_filepath, cursor_row, status_message, disk,
                   orig, unrecorded>>

recorded_edit(key) == RecordedStep(key) /\ Tick

\* menu_callback_undo
UndoStep ==
    /\ Running
    /\ buffer' = undo_perform(buffer)
    /\ status_message' = "Undo"
    /\ last' = "undo"
    /\ UNCHANGED <<file_count, has_filepath, modified, cursor_row, cursor_col,
                   disk, orig, tip, recorded, unrecorded, evicted>>

menu_callback_undo == UndoStep /\ Tick

\* menu_callback_redo
RedoStep ==
    /\ Running
    /\ buffer' = redo_perform(buffer)
    /\ status_message' = "Redo"
    /\ last' = "redo"
    /\ UNCHANGED <<file_count, has_filepath, modified, cursor_row, cursor_col,
                   disk, orig, tip, recorded, unrecorded, evicted>>

menu_callback_redo == RedoStep /\ Tick

\* api_insert_text(text)
RECURSIVE InsertText(_, _, _, _)
InsertText(buf, text, pos, i) ==
    IF i > Len(text) THEN buf
    ELSE InsertText(buffer_insert_char(buf, text[i], pos), text, pos + 1, i + 1)

api_insert_text(text) ==
    /\ Running
    /\ buffer' = InsertText(buffer, text, CursorPos, 1)
    /\ cursor_col' = cursor_col + Len(text)
    /\ modified' = TRUE
    /\ unrecorded' = TRUE
    /\ last' = "api_insert_text"
    /\ UNCHANGED <<file_count, has_filepath, cursor_row, status_message, disk,
                   orig, tip, recorded, evicted>>
    /\ Tick

\* api_save_file(): fopen succeeds iff wr_ok
api_save_file(wr_ok) ==
    /\ Running
    /\ IF has_filepath
       THEN /\ disk' = buffer_save_file(buffer, disk, wr_ok)
            /\ modified' = FALSE
       ELSE UNCHANGED <<disk, modified>>
    /\ last' = "api_save_file"
    /\ UNCHANGED <<buffer, file_count, has_filepath, cursor_row, cursor_col,
                   status_message, orig, tip, recorded, unrecorded, evicted>>
    /\ Tick

\* menu_callback_goto_line: fb->line_count is never assigned, so the test
\* line <= fb->line_count reads an indeterminate int; in_range is its outcome.
menu_callback_goto_line(line, in_range) ==
    /\ Running
    /\ IF line > 0 /\ in_range
       THEN /\ cursor_row' = line - 1
            /\ cursor_col' = 0
            /\ status_message' = "Jumped to line"
       ELSE UNCHANGED <<cursor_row, cursor_col, status_message>>
    /\ last' = "goto_line"
    /\ UNCHANGED <<buffer, file_count, has_filepath, modified, disk, orig, tip,
                   recorded, unrecorded, evicted>>
    /\ Tick

Keys == Chars \cup {8, 19}

\* The handlers of the source.
Next ==
    \/ \E with_path \in BOOLEAN, zeroed \in BOOLEAN, rd_ok \in BOOLEAN :
          tab_add_file(with_path, zeroed, rd_ok)
    \/ \E key \in Keys, wr_ok \in BOOLEAN : editor_process_key(key, wr_ok)
    \/ menu_callback_undo
    \/ menu_callback_redo
    \/ \E text \in ApiTexts : api_insert_text(text)
    \/ \E wr_ok \in BOOLEAN : api_save_file(wr_ok)
    \/ \E line \in 1..MaxGotoLine, in_range \in BOOLEAN :
          menu_callback_goto_line(line, in_range)

Spec == Init /\ [][Next]_vars

\* The editing handlers together with a client that records its edits.
NextHistory ==
    \/ \E with_path \in BOOLEAN, zeroed \in BOOLEAN :
          tab_add_file(with_path, zeroed, TRUE)
    \/ \E key \in Chars \cup {8} : editor_process_key(key, TRUE)
    \/ \E key \in Chars \cup {8} : recorded_edit(key)
    \/ menu_callback_undo
    \/ menu_callback_redo

SpecHistory == Init /\ [][NextHistory]_vars

TypeOK ==
    /\ file_count \in {0, 1}
    /\ buffer.fault \in {"none", "corrupt", "crash", "uninit"}
    /\ Len(buffer.undo_stack) <= MAX_UNDO_LEVELS


(***************************************************************************)
(* The scenario of section 8: on a new buffer, insert 5 characters one at  *)
(* a time, delete the last 2, undo twice, redo twice.  The edits are       *)
(* either all recorded in the history or all plain key presses.            *)
(***************************************************************************)
ScenarioInserts == 5
ScenarioDeletes == 2
ScenarioUndos == 2
EditsDone == 1 + ScenarioInserts + ScenarioDeletes
UndosDone == EditsDone + ScenarioUndos
ScenarioEnd == UndosDone + ScenarioUndos

InitScenario ==
    /\ InitFields
    /\ disk = <<>>
    /\ steps = 0
    /\ script \in {[mode |-> m, step |-> 0, snap |-> <<>>] :
                      m \in {"recorded", "plain"}}
    /\ SearchIdle
    /\ ModulesIdle
    /\ MainIdle

Advance ==
    /\ script' = [script EXCEPT
                     !.step = @ + 1,
                     !.snap = IF script.step + 1 = EditsDone
                              THEN Text(buffer') ELSE @]
    /\ UNCHANGED <<steps, searchVars, moduleVars, mainVars,
                   editorVars>>

ScenarioEdit(key) ==
    IF script.mode = "recorded" THEN RecordedStep(key) ELSE KeyStep(key, TRUE)

ScenarioOpen ==
    /\ script.step = 0
    /\ \E zeroed \in BOOLEAN : AddFileStep(FALSE, zeroed, TRUE)
    /\ Advance

ScenarioInsert ==
    /\ script.step \in 1..ScenarioInserts
    /\ \E key \in Chars : ScenarioEdit(key)
    /\ Advance

ScenarioDelete ==
    /\ script.step \in (ScenarioInserts + 1)..(EditsDone - 1)
    /\ ScenarioEdit(8)
    /\ Advance

ScenarioUndo ==
    /\ script.step \in EditsDone..(UndosDone - 1)
    /\ UndoStep
    /\ Advance

ScenarioRedo ==
    /\ script.step \in UndosDone..(ScenarioEnd - 1)
    /\ RedoStep
    /\ Advance

NextScenario ==
    \/ ScenarioOpen
    \/ ScenarioInsert
    \/ ScenarioDelete
    \/ ScenarioUndo
    \/ ScenarioRedo

SpecScenario == InitScenario /\ [][NextScenario]_vars

(***************************************************************************)
(* Search on a one-line file.  tab_add_file leaves fb->search and          *)
(* fb->line_count as malloc returned them (search_init and                 *)
(* update_line_count have no caller): the initial state draws their        *)
(* values.                                                                 *)
(***************************************************************************)
MaxSearchLen == 3
MaxLines == 1
MaxSearchSteps == 5
SearchChars == {97, 98, 32}
SearchFiles == UNION {[1..n -> SearchChars] : n \in 0..MaxSearchLen}
Patterns == {<<>>, <<98>>, <<97, 98>>, <<66>>}
Replacements == {<<>>, <<97>>}

InitSearch ==
    /\ InitFields
    /\ disk \in SearchFiles
    /\ steps = 0
    /\ script = Free
    /\ search \in [pattern : {<<>>, <<INDETERMINATE>>},
                    replace_text : {<<>>},
                    case_sensitive : BOOLEAN,
                    whole_word : BOOLEAN,
                    current_match : {0}]
    /\ line_count \in 0..MaxLines
    /\ ret = 0
    /\ ModulesIdle
    /\ MainIdle

\* The FileBuffer the search functions are given.
Fb ==
    [buffer |-> buffer, cursor_row |-> cursor_row, cursor_col |-> cursor_col,
     modified |-> modified, search |-> search, line_count |-> line_count,
     rv |-> ret]

\* The FileBuffer they leave.
SearchStep(fb, name) ==
    /\ steps < MaxSearchSteps
    /\ steps' = steps + 1
    /\ buffer' = fb.buffer
    /\ cursor_row' = fb.cursor_row
    /\ cursor_col' = fb.cursor_col
    /\ modified' = fb.modified
    /\ search' = fb.search
    /\ ret' = fb.rv
    /\ last' = name
    /\ unrecorded' = (unrecorded \/ fb.buffer # buffer)
    /\ UNCHANGED <<file_count, has_filepath, disk, orig, tip, recorded,
                   evicted, line_count, script, moduleVars, mainVars,
                   editorVars>>

\* command_execute, "search <args>"
command_search(args) ==
    /\ Running
    /\ SearchStep(search_find_next([Fb EXCEPT !.search.pattern = args]),
                  "command_search")
    /\ status_message' = "Searching"

\* api_replace_text(old_text, new_text)
api_replace_text(old_text, new_text) ==
    /\ Running
    /\ SearchStep(search_replace_all(
                      [Fb EXCEPT !.search.pattern = old_text,
                                 !.search.replace_text = new_text]),
                  "api_replace_text")
    /\ status_message' = "Replaced occurrences"

\* Calls of the three functions on the current buffer.  search_find_prev
\* is called with the cursor inside the line or just after it.
call_search_find_next ==
    /\ Running
    /\ SearchStep(search_find_next(Fb), "search_find_next")
    /\ UNCHANGED status_message

call_search_find_prev ==
    /\ Running
    /\ cursor_col - 1 <= Len(buffer_get_line(buffer, cursor_row).line)
    /\ SearchStep(search_find_prev(Fb), "search_find_prev")
    /\ UNCHANGED status_message

call_search_replace_current ==
    /\ Running
    /\ SearchStep(search_replace_current(Fb), "search_replace_current")
    /\ UNCHANGED status_message

NextSearch ==
    \/ \E zeroed \in BOOLEAN : tab_add_file(TRUE, zeroed, TRUE)
    \/ \E args \in Patterns \ {<<>>} : command_search(args)
    \/ \E old_text \in Patterns, new_text \in Replacements :
          api_replace_text(old_text, new_text)
    \/ call_search_find_next
    \/ call_search_find_prev
    \/ call_search_replace_current

SpecSearch == InitSearch /\ [][NextSearch]_vars

(***************************************************************************)
(* search_replace_all, one iteration of its loop at a time.  While the     *)
(* loop runs, last is "search_replace_all" or "replace_iteration" and ret  *)
(* holds the local variable count.                                         *)
(***************************************************************************)
MaxReplaceLines == 3

\* "bb", "b\nb", "ab b", "a", "bbbb" and "abb"
ReplaceFiles ==
    {<<98, 98>>, <<98, 10, 98>>, <<97, 98, 32, 98>>, <<97>>,
     <<98, 98, 98, 98>>, <<97, 98, 98>>}

\* pattern and replacement: "b" by "bb", "b" by "ba", "b" by "b", "b" by
\* "a", "b" by nothing, "bb" by "b", and no pattern
ReplacePairs ==
    {<<<<98>>, <<98, 98>>>>, <<<<98>>, <<98, 97>>>>, <<<<98>>, <<98>>>>,
     <<<<98>>, <<97>>>>, <<<<98>>, <<>>>>, <<<<98, 98>>, <<98>>>>,
     <<<<>>, <<97>>>>}

InReplaceLoop == last \in {"search_replace_all", "replace_iteration"}

ReplaceFrame ==
    /\ unrecorded' = (unrecorded \/ buffer' # buffer)
    /\ UNCHANGED <<file_count, has_filepath, disk, orig, tip, recorded,
                   evicted, line_count, steps, script, moduleVars, mainVars,
                   editorVars>>

\* api_replace_text up to the loop of search_replace_all
replace_all_begin(old_text, new_text) ==
    /\ Running
    /\ last = "tab_add_file"
    /\ search' = [search EXCEPT !.pattern = old_text,
                                !.replace_text = new_text]
    /\ cursor_row' = 0
    /\ cursor_col' = 0
    /\ ret' = 0
    /\ last' = "search_replace_all"
    /\ UNCHANGED <<buffer, modified, status_message>>
    /\ ReplaceFrame

\* while (search_find_next(fb) > 0) { search_replace_current(fb); count++; }
\* once round, or out of the loop with "return count"
replace_iteration ==
    /\ Running
    /\ InReplaceLoop
    /\ LET found == search_find_next(Fb)
           fb == IF found.rv > 0 THEN search_replace_current(found)
                 ELSE found
       IN  /\ buffer' = fb.buffer
           /\ cursor_row' = fb.cursor_row
           /\ cursor_col' = fb.cursor_col
           /\ modified' = fb.modified
           /\ search' = fb.search
           /\ ret' = IF found.rv > 0 THEN ret + 1 ELSE ret
           /\ last' = IF found.rv > 0 THEN "replace_iteration"
                      ELSE "replace_all_done"
    /\ status_message' = IF search_find_next(Fb).rv > 0 THEN status_message
                         ELSE "Replaced occurrences"
    /\ ReplaceFrame

InitReplace ==
    /\ disk \in ReplaceFiles
    /\ buffer = buffer_load_file(buffer_create(TRUE), disk, TRUE)
    /\ file_count = 1
    /\ has_filepath = TRUE
    /\ modified = FALSE
    /\ cursor_row \in 0..1
    /\ cursor_col \in 0..1
    /\ status_message = "GNU ede - Press Ctrl+Q to exit"
    /\ orig = disk
    /\ tip = disk
    /\ recorded = 0
    /\ unrecorded = FALSE
    /\ evicted = FALSE
    /\ last = "tab_add_file"
    /\ steps = 0
    /\ script = Free
    /\ search = [pattern |-> <<>>, replace_text |-> <<>>,
                 case_sensitive |-> FALSE, whole_word |-> FALSE,
                 current_match |-> 0]
    /\ line_count \in 0..MaxReplaceLines
    /\ ret = 0
    /\ ModulesIdle
    /\ MainIdle

NextReplace ==
    \/ \E pair \in ReplacePairs : replace_all_begin(pair[1], pair[2])
    \/ replace_iteration

SpecReplace == InitReplace /\ [][NextReplace]_vars

(***************************************************************************)
(* Modules.  A module is the record of the fields of Module the hooks      *)
(* depend on; handle is "null", "loaded" or "freed" (after FreeLibrary).   *)
(* id numbers the libraries in the order they were loaded.                 *)
(***************************************************************************)
MaxLoads == 3

\* module_load(emod_path): LoadLibraryA succeeds iff handle_ok, the library
\* exports module_init iff has_init and module_on_key iff has_on_key, and
\* module_init returns init_result.
module_load_counts_failed(mods, count, id, handle_ok, has_init, init_result, has_on_key, has_on_save) ==
    IF count >= MAX_MODULES
    THEN [modules |-> mods, module_count |-> count, rv |-> -1,
          init_failed |-> FALSE]
    ELSE IF ~handle_ok
    THEN [modules |-> [mods EXCEPT ![count] = NoModule],
          module_count |-> count, rv |-> -1, init_failed |-> FALSE]
    ELSE
        LET mod == [id |-> id, handle |-> "loaded", init |-> has_init,
                    on_key |-> has_on_key, on_save |-> has_on_save,
                    enabled |-> TRUE]
        IN  IF has_init /\ init_result # 0
            THEN [modules |-> [mods EXCEPT ![count] =
                                  [mod EXCEPT !.handle = "freed"]],
                  module_count |-> count + 1, rv |-> -1, init_failed |-> TRUE]
            ELSE [modules |-> [mods EXCEPT ![count] = mod],
                  module_count |-> count + 1, rv |-> 0, init_failed |-> FALSE]

module_load(mods, count, id, handle_ok, has_init, init_result, has_on_key, has_on_save) ==
    IF count >= MAX_MODULES
    THEN [modules |-> mods, module_count |-> count, rv |-> -1,
          init_failed |-> FALSE]
    ELSE IF ~handle_ok
    THEN [modules |-> [mods EXCEPT ![count] = NoModule],
          module_count |-> count, rv |-> -1, init_failed |-> FALSE]
    ELSE
        LET mod == [id |-> id, handle |-> "loaded", init |-> has_init,
                    on_key |-> has_on_key, on_save |-> has_on_save,
                    enabled |-> TRUE]
        IN  IF has_init /\ init_result # 0
            THEN [modules |-> [mods EXCEPT ![count] =
                                  [mod EXCEPT !.handle = "freed"]],
                  module_count |-> count, rv |-> -1, init_failed |-> TRUE]
            ELSE [modules |-> [mods EXCEPT ![count] = mod],
                  module_count |-> count + 1, rv |-> 0, init_failed |-> FALSE]

module_enable(mods, count, index) ==
    IF index < 0 \/ index >= count THEN mods
    ELSE [mods EXCEPT ![index].enabled = TRUE]

module_disable(mods, count, index) ==
    IF index < 0 \/ index >= count THEN mods
    ELSE [mods EXCEPT ![index].enabled = FALSE]

module_trigger_first_only(mods, count) ==
    {mods[i].id : i \in {j \in 0..(count - 1) :
                            j = 0 /\ mods[j].enabled /\ mods[j].on_key}}

\* module_trigger_on_key(key): the ids of the modules whose on_key is called.
module_trigger_on_key(mods, count) ==
    {mods[i].id : i \in {j \in 0..(count - 1) :
                            mods[j].enabled /\ mods[j].on_key}}

\* editor_process_key, Ctrl+S: the ids of the modules whose on_save is called
\* after the file is written.
ctrl_s_on_save(mods, count) ==
    {mods[i].id : i \in {j \in 0..(count - 1) : mods[j].on_save}}

\* module_unload_all
module_unload_all(mods, count) ==
    [i \in 0..(MAX_MODULES - 1) |->
        IF i < count /\ mods[i].handle = "loaded"
        THEN [mods[i] EXCEPT !.handle = "freed"] ELSE mods[i]]

\* A call of module_load, with the outcome of the library's code.
ModuleLoadStep(handle_ok, has_init, init_result, has_on_key, has_on_save) ==
    /\ hooks.loads < MaxLoads
    /\ LET id == hooks.loads + 1
           r == module_load(modules, module_count, id, handle_ok, has_init,
                            init_result, has_on_key, has_on_save)
       IN  /\ modules' = r.modules
           /\ module_count' = r.module_count
           /\ hooks' = [hooks EXCEPT
                           !.loads = id,
                           !.failed = IF r.init_failed THEN @ \cup {id} ELSE @]
           /\ status_message' = IF r.rv = 0 THEN "Loaded module"
                                ELSE status_message
    /\ last' = "module_load"
    /\ UNCHANGED <<buffer, file_count, has_filepath, modified, cursor_row,
                   cursor_col, disk, orig, tip, recorded, unrecorded, evicted,
                   script, searchVars>>

InitResults == {0, 1}

\* command_execute, "module load <path>"
command_module_load(handle_ok, has_init, init_result, has_on_key, has_on_save) ==
    /\ pc = "editor_run"
    /\ running
    /\ ModuleLoadStep(handle_ok, has_init, init_result, has_on_key,
                      has_on_save)
    /\ UNCHANGED <<steps, mainVars,
                   editorVars>>

call_module_disable(index) ==
    /\ pc = "editor_run"
    /\ modules' = module_disable(modules, module_count, index)
    /\ modules' # modules
    /\ last' = "module_disable"
    /\ UNCHANGED <<buffer, file_count, has_filepath, modified, cursor_row,
                   cursor_col, status_message, disk, orig, tip, recorded,
                   unrecorded, evicted, steps, script, searchVars,
                   module_count, hooks, mainVars,
                   editorVars>>

call_module_enable(index) ==
    /\ pc = "editor_run"
    /\ modules' = module_enable(modules, module_count, index)
    /\ modules' # modules
    /\ last' = "module_enable"
    /\ UNCHANGED <<buffer, file_count, has_filepath, modified, cursor_row,
                   cursor_col, status_message, disk, orig, tip, recorded,
                   unrecorded, evicted, steps, script, searchVars,
                   module_count, hooks, mainVars,
                   editorVars>>

(***************************************************************************)
(* main and editor_run.  pc is the position: "main" (argument parsing and   *)
(* compile mode), "init", "load_module", "open" (the start of the editor),  *)
(* "editor_run" (top of the loop), "notify", "dispatch" (a key is in hand),  *)
(* "cleanup", "exited".                                                     *)
(***************************************************************************)
MaxArgs == 3
MaxMainKeys == 8
MaxModuleKeys == 3
MaxTyped == 2
EXIT_COMMAND_SIZE == 64
ENABLE_PROCESSED_OUTPUT == "ENABLE_PROCESSED_OUTPUT"

ArgTokens == {"-o", "-h", "-v", "-m", "f"}
ArgLists == UNION {[1..n -> ArgTokens] : n \in 0..MaxArgs}
ConsoleModes ==
    {{ENABLE_PROCESSED_OUTPUT},
     {ENABLE_PROCESSED_OUTPUT, ENABLE_VIRTUAL_TERMINAL_PROCESSING}}

\* The standard output handle before main: a console with its mode, or a
\* handle that is no console (redirected output), on which GetConsoleMode,
\* SetConsoleMode and GetConsoleScreenBufferInfo fail.
Consoles ==
    {[mode |-> m, orig |-> m, tty |-> TRUE] : m \in ConsoleModes}
        \cup {[mode |-> {}, orig |-> {}, tty |-> FALSE]}

SAVE == <<115, 97, 118, 101>>
DISCARD == <<100, 105, 115, 99, 97, 114, 100>>

\* The process before main: g_state is zero, the console has its own mode.
InitMain ==
    /\ buffer = NoBuffer
    /\ file_count = 0
    /\ has_filepath = FALSE
    /\ modified = FALSE
    /\ cursor_row = 0
    /\ cursor_col = 0
    /\ status_message = ""
    /\ disk = <<97, 98>>
    /\ orig = <<>>
    /\ tip = <<>>
    /\ recorded = 0
    /\ unrecorded = FALSE
    /\ evicted = FALSE
    /\ last = "start"
    /\ steps = 0
    /\ script = Free
    /\ SearchIdle
    /\ ModulesIdle
    /\ pc = "main"
    /\ last_key = NoKey
    /\ mode = MODE_NORMAL
    /\ exit_command = <<>>
    /\ running = FALSE
    /\ console \in Consoles
    /\ proc \in {[NoArgs EXCEPT !.argv = a, !.terminal_inited = FALSE,
                                !.loop_ran = FALSE] : a \in ArgLists}
    /\ viewport = [row_offset |-> 0, col_offset |-> 0]
    /\ EditorIdle

\* main, "Simple arg parsing": argv[i] for i >= 1; early is a return 0
\* from inside the loop (-h, -v).
RECURSIVE ParseArgs(_, _, _)
ParseArgs(argv, i, st) ==
    IF i > Len(argv) THEN st
    ELSE IF argv[i] = "-o" /\ i + 1 <= Len(argv)
    THEN ParseArgs(argv, i + 2, [st EXCEPT !.compile_mode = TRUE])
    ELSE IF argv[i] = "-m" /\ i + 1 <= Len(argv)
    THEN ParseArgs(argv, i + 2, [st EXCEPT !.module_file = TRUE])
    ELSE IF argv[i] \in {"-h", "-v"}
    THEN [st EXCEPT !.early = TRUE]
    ELSE ParseArgs(argv, i + 1, st)

esrc_compile_ignores_cc(src_ok, out_ok, parse_ok, cc_ok) ==
    IF ~src_ok THEN -1
    ELSE IF ~out_ok THEN -1
    ELSE IF ~parse_ok THEN -1
    ELSE 0

\* esrc_compile: the source opens iff src_ok, the intermediate C file is
\* created iff out_ok, esrc_parse_and_compile returns 0 iff parse_ok and
\* system(gcc ...) returns 0 iff cc_ok.
esrc_compile(src_ok, out_ok, parse_ok, cc_ok) ==
    IF ~src_ok THEN -1
    ELSE IF ~out_ok THEN -1
    ELSE IF ~parse_ok THEN -1
    ELSE IF ~cc_ok THEN -1
    ELSE 0

\* main up to "Normal editor mode".  argv holds the arguments until main
\* has read them; has_files says whether one of them names a file to open.
main_args(src_ok, out_ok, parse_ok, cc_ok) ==
    /\ pc = "main"
    /\ LET st == [ParseArgs(proc.argv, 1, proc) EXCEPT
                     !.argv = <<>>,
                     !.has_files = \E i \in 1..Len(proc.argv) :
                                      proc.argv[i] = "f"]
           argc == Len(proc.argv) + 1
       IN  IF st.early
           THEN /\ proc' = [st EXCEPT !.exit_code = 0]
                /\ pc' = "exited"
           ELSE IF st.compile_mode
           THEN /\ proc' = IF argc < 3 THEN [st EXCEPT !.exit_code = 1]
                           ELSE [st EXCEPT
                                    !.exit_code = esrc_compile(src_ok, out_ok,
                                                               parse_ok, cc_ok),
                                    !.compiled = (src_ok /\ out_ok /\ parse_ok
                                                    /\ cc_ok)]
                /\ pc' = "exited"
           ELSE /\ proc' = st
                /\ pc' = "init"
    /\ last' = "main"
    /\ UNCHANGED <<buffer, file_count, has_filepath, modified, cursor_row,
                   cursor_col, status_message, disk, orig, tip, recorded,
                   unrecorded, evicted, steps, script, searchVars, moduleVars,
                   last_key, mode, exit_command, running, console, viewport,
                   editorVars>>

\* terminal_init: mode |= ENABLE_VIRTUAL_TERMINAL_PROCESSING. No result of
\* the three console calls is tested; on a handle that is no console they
\* fail and change nothing, and terminal_init returns as it does otherwise.
terminal_init(con) ==
    IF con.tty
    THEN [con EXCEPT !.mode = @ \cup {ENABLE_VIRTUAL_TERMINAL_PROCESSING}]
    ELSE con

\* terminal_cleanup prints the clear-screen sequence.
terminal_cleanup(con) == con

\* main, "Initialize editor": editor_init
main_editor_init ==
    /\ pc = "init"
    /\ mode' = MODE_NORMAL
    /\ exit_command' = <<>>
    /\ module_count' = 0
    /\ console' = terminal_init(console)
    /\ status_message' = "GNU ede - Press Ctrl+Q to exit"
    /\ proc' = [proc EXCEPT !.terminal_inited = TRUE]
    /\ pc' = "load_module"
    /\ last' = "editor_init"
    /\ UNCHANGED <<buffer, file_count, has_filepath, modified, cursor_row,
                   cursor_col, disk, orig, tip, recorded, unrecorded, evicted,
                   steps, script, searchVars, modules, hooks, last_key,
                   running, viewport,
                   editorVars>>

\* main, "Load module if specified"
main_module_load(handle_ok, has_init, init_result, has_on_key, has_on_save) ==
    /\ pc = "load_module"
    /\ IF proc.module_file
       THEN ModuleLoadStep(handle_ok, has_init, init_result, has_on_key,
                           has_on_save)
       ELSE /\ last' = "main"
            /\ UNCHANGED <<fileVars, status_message, script, searchVars,
                           moduleVars>>
    /\ pc' = "open"
    /\ UNCHANGED <<steps, last_key, mode, exit_command, running, console,
                   proc, viewport,
                   editorVars>>

\* main, "Open files from args": the first argument that does not start
\* with '-' is opened, or a new buffer when there is none; editor_run then
\* sets running.
main_open_files(zeroed, rd_ok) ==
    /\ pc = "open"
    /\ AddFileStep(proc.has_files, zeroed, rd_ok)
    /\ running' = TRUE
    /\ proc' = [proc EXCEPT !.loop_ran = TRUE]
    /\ pc' = "editor_run"
    /\ UNCHANGED <<steps, script, searchVars, moduleVars, last_key, mode,
                   exit_command, console, viewport,
                   editorVars>>

\* terminal_get_key: bytes are what _getch returns, one call after another.
terminal_get_key(bytes) ==
    IF bytes[1] = 0 \/ bytes[1] = 224
    THEN [code |-> bytes[2], extended |-> TRUE]
    ELSE [code |-> bytes[1], extended |-> FALSE]

\* editor_run: a key is read (key != -1).
loop_get_key(bytes, max_keys) ==
    /\ pc = "editor_run"
    /\ running
    /\ steps < max_keys
    /\ steps' = steps + 1
    /\ last_key' = terminal_get_key(bytes)
    /\ hooks' = [hooks EXCEPT !.notified = NotNotified]
    /\ pc' = "notify"
    /\ UNCHANGED <<coreVars, script, searchVars, modules, module_count, mode,
                   exit_command, running, console, proc, viewport,
                   editorVars>>

\* editor_run, "Notify modules"
loop_notify ==
    /\ pc = "notify"
    /\ LET ids == module_trigger_on_key(modules, module_count)
       IN  hooks' = [hooks EXCEPT
                        !.notified = [code |-> last_key.code, ids |-> ids],
                        !.called = @ \cup ids]
    /\ pc' = "dispatch"
    /\ UNCHANGED <<coreVars, steps, script, searchVars, modules, module_count,
                   last_key, mode, exit_command, running, console, proc,
                   viewport,
                   editorVars>>

exit_confirm_keeps_command(cmd, k) ==
    IF k = 13 \/ k = 10
    THEN [mode |-> MODE_EXIT_CONFIRM, exit_command |-> cmd, cancelled |-> FALSE]
    ELSE IF k = 27
    THEN [mode |-> MODE_NORMAL, exit_command |-> cmd, cancelled |-> TRUE]
    ELSE IF k = 8
    THEN [mode |-> MODE_EXIT_CONFIRM,
          exit_command |-> IF Len(cmd) > 0 THEN SubSeq(cmd, 1, Len(cmd) - 1)
                           ELSE cmd,
          cancelled |-> FALSE]
    ELSE IF k >= 32 /\ k < 127
    THEN [mode |-> MODE_EXIT_CONFIRM,
          exit_command |-> IF Len(cmd) < EXIT_COMMAND_SIZE - 1
                           THEN Append(cmd, k) ELSE cmd,
          cancelled |-> FALSE]
    ELSE [mode |-> MODE_EXIT_CONFIRM, exit_command |-> cmd, cancelled |-> FALSE]

\* editor_process_key in MODE_EXIT_CONFIRM
exit_confirm_key(cmd, k) ==
    IF k = 13 \/ k = 10
    THEN [mode |-> MODE_EXIT_CONFIRM, exit_command |-> cmd, cancelled |-> FALSE]
    ELSE IF k = 27
    THEN [mode |-> MODE_NORMAL, exit_command |-> <<>>, cancelled |-> TRUE]
    ELSE IF k = 8
    THEN [mode |-> MODE_EXIT_CONFIRM,
          exit_command |-> IF Len(cmd) > 0 THEN SubSeq(cmd, 1, Len(cmd) - 1)
                           ELSE cmd,
          cancelled |-> FALSE]
    ELSE IF k >= 32 /\ k < 127
    THEN [mode |-> MODE_EXIT_CONFIRM,
          exit_command |-> IF Len(cmd) < EXIT_COMMAND_SIZE - 1
                           THEN Append(cmd, k) ELSE cmd,
          cancelled |-> FALSE]
    ELSE [mode |-> MODE_EXIT_CONFIRM, exit_command |-> cmd, cancelled |-> FALSE]

\* editor_process_key in MODE_NORMAL for a key other than Ctrl+Q
NormalKey(k, wr_ok) ==
    IF file_count = 0
    THEN /\ last' = "key"
         /\ UNCHANGED <<fileVars, status_message>>
    ELSE KeyStep(k, wr_ok)

\* editor_run: editor_process_key(key), then "Handle exit"
loop_dispatch(wr_ok) ==
    /\ pc = "dispatch"
    /\ IF mode = MODE_EXIT_CONFIRM THEN
          LET r == exit_confirm_key(exit_command, last_key.code)
              leaving == r.mode = MODE_EXIT_CONFIRM
                            /\ r.exit_command \in {SAVE, DISCARD}
          IN  /\ mode' = r.mode
              /\ exit_command' = r.exit_command
              /\ status_message' = IF r.cancelled THEN "Exit cancelled"
                                   ELSE status_message
              /\ disk' = IF /\ r.mode = MODE_EXIT_CONFIRM
                            /\ r.exit_command = SAVE
                            /\ file_count > 0 /\ modified /\ has_filepath
                         THEN buffer_save_file(buffer, disk, wr_ok)
                         ELSE disk
              /\ pc' = IF leaving THEN "cleanup" ELSE "editor_run"
              /\ proc' = [proc EXCEPT !.prompt_keys = @ + 1]
              /\ last' = IF r.cancelled THEN "exit_cancelled" ELSE "prompt_key"
              /\ UNCHANGED <<buffer, file_count, has_filepath, modified,
                             cursor_row, cursor_col, orig, tip, recorded,
                             unrecorded, evicted>>
       ELSE IF last_key.code = 17 THEN
          /\ mode' = MODE_EXIT_CONFIRM
          /\ exit_command' = <<>>
          /\ status_message' = "Type 'save' or 'discard' to exit:"
          /\ proc' = [proc EXCEPT !.prompt_keys = 0]
          /\ pc' = "editor_run"
          /\ last' = "ctrl_q"
          /\ UNCHANGED fileVars
       ELSE
          /\ NormalKey(last_key.code, wr_ok)
          /\ pc' = "editor_run"
          /\ UNCHANGED <<mode, exit_command, proc>>
    /\ hooks' = IF /\ mode # MODE_EXIT_CONFIRM
                   /\ last_key.code = 19
                   /\ file_count > 0 /\ has_filepath
                THEN [hooks EXCEPT
                         !.saved = ctrl_s_on_save(modules, module_count)]
                ELSE hooks
    /\ UNCHANGED <<steps, script, searchVars, modules, module_count, last_key,
                   running, console, viewport,
                   editorVars>>

\* command_execute "quit" / "q", and menu_callback_exit
command_quit ==
    /\ pc = "editor_run"
    /\ running
    /\ running' = FALSE
    /\ last' = "quit"
    /\ UNCHANGED <<fileVars, status_message, steps, script, searchVars,
                   moduleVars, pc, last_key, mode, exit_command, console,
                   proc, viewport,
                   editorVars>>

\* command_execute "wq"
command_wq(wr_ok) ==
    /\ pc = "editor_run"
    /\ running
    /\ disk' = IF file_count > 0 /\ has_filepath
               THEN buffer_save_file(buffer, disk, wr_ok) ELSE disk
    /\ running' = FALSE
    /\ last' = "wq"
    /\ UNCHANGED <<buffer, file_count, has_filepath, modified, cursor_row,
                   cursor_col, orig, tip, recorded, unrecorded, evicted,
                   status_message, steps, script, searchVars, moduleVars, pc,
                   last_key, mode, exit_command, console, proc, viewport,
                   editorVars>>

\* editor_run: while (g_state.running) ends the loop
loop_exit ==
    /\ pc = "editor_run"
    /\ ~running
    /\ pc' = "cleanup"
    /\ UNCHANGED <<coreVars, steps, script, searchVars, moduleVars, last_key,
                   mode, exit_command, running, console, proc, viewport,
                   editorVars>>

\* main, "Cleanup": terminal_cleanup, editor_cleanup, return 0
main_cleanup ==
    /\ pc = "cleanup"
    /\ console' = terminal_cleanup(console)
    /\ modules' = module_unload_all(modules, module_count)
    /\ module_count' = 0
    /\ buffer' = NoBuffer
    /\ file_count' = 0
    /\ proc' = [proc EXCEPT !.exit_code = 0]
    /\ pc' = "exited"
    /\ last' = "main"
    /\ UNCHANGED <<has_filepath, modified, cursor_row, cursor_col,
                   status_message, disk, orig, tip, recorded, unrecorded,
                   evicted, steps, script, searchVars, hooks, last_key, mode,
                   exit_command, running, viewport,
                   editorVars>>

\* What the user types: up to MaxTyped keys of text and Ctrl+Q in normal
\* mode; at the exit prompt the next letter of "save" or of "discard", or
\* another letter, Backspace, Enter or ESC.  The Up arrow arrives as two
\* bytes.
ExtendedKeys == {<<224, 72>>}

NextLetters ==
    {<<w[Len(exit_command) + 1]>> :
        w \in {v \in {SAVE, DISCARD} :
                 /\ Len(exit_command) < Len(v)
                 /\ SubSeq(v, 1, Len(exit_command)) = exit_command}}

MainInputs ==
    IF mode = MODE_EXIT_CONFIRM
    THEN NextLetters \cup {<<120>>, <<8>>, <<13>>, <<27>>}
    ELSE {<<17>>} \cup (IF cursor_col < MaxTyped
                          THEN {<<97>>} \cup ExtendedKeys ELSE {})

NextMain ==
    \/ \E src_ok \in BOOLEAN, out_ok \in BOOLEAN, parse_ok \in BOOLEAN,
          cc_ok \in BOOLEAN : main_args(src_ok, out_ok, parse_ok, cc_ok)
    \/ main_editor_init
    \/ \E handle_ok \in BOOLEAN, init_result \in InitResults :
          main_module_load(handle_ok, TRUE, init_result, TRUE, TRUE)
    \/ \E rd_ok \in BOOLEAN : main_open_files(TRUE, rd_ok)
    \/ \E bytes \in MainInputs : loop_get_key(bytes, MaxMainKeys)
    \/ loop_notify
    \/ \E wr_ok \in BOOLEAN : loop_dispatch(wr_ok)
    \/ command_quit
    \/ \E wr_ok \in BOOLEAN : command_wq(wr_ok)
    \/ loop_exit
    \/ main_cleanup

SpecMain == InitMain /\ [][NextMain]_vars

\* editor_run: an iteration in which terminal_get_key returns -1, which is
\* left with "Auto-save".  due says that autosave_interval is positive and
\* that more than autosave_interval seconds have passed since last_autosave
\* (0 at the first iteration); fopen succeeds iff wr_ok.  The auto-save at
\* the end of an iteration that handled a key is this step after it.
loop_idle(due, wr_ok) ==
    /\ pc = "editor_run"
    /\ running
    /\ LET saves == due /\ file_count > 0 /\ modified /\ has_filepath
       IN  /\ disk' = IF saves THEN buffer_save_file(buffer, disk, wr_ok)
                      ELSE disk
           /\ last' = IF saves THEN "autosave" ELSE "idle"
    /\ UNCHANGED <<buffer, file_count, has_filepath, modified, cursor_row,
                   cursor_col, orig, tip, recorded, unrecorded, evicted,
                   status_message, steps, script, searchVars, moduleVars, pc,
                   last_key, mode, exit_command, running, console, proc,
                   viewport, editorVars>>

StartDisk == <<97, 98>>

\* ede <file> on a usable terminal, the file holding StartDisk
InitAutosave ==
    /\ InitMain
    /\ disk = StartDisk
    /\ proc.argv = <<"f">>
    /\ console.tty

MaxAutosaveKeys == 9

NextAutosave ==
    \/ \E src_ok \in BOOLEAN, out_ok \in BOOLEAN, parse_ok \in BOOLEAN,
          cc_ok \in BOOLEAN : main_args(src_ok, out_ok, parse_ok, cc_ok)
    \/ main_editor_init
    \/ \E handle_ok \in BOOLEAN, init_result \in InitResults :
          main_module_load(handle_ok, TRUE, init_result, TRUE, TRUE)
    \/ \E rd_ok \in BOOLEAN : main_open_files(TRUE, rd_ok)
    \/ \E bytes \in MainInputs : loop_get_key(bytes, MaxAutosaveKeys)
    \/ loop_notify
    \/ \E wr_ok \in BOOLEAN : loop_dispatch(wr_ok)
    \/ \E due \in BOOLEAN, wr_ok \in BOOLEAN : loop_idle(due, wr_ok)
    \/ command_quit
    \/ \E wr_ok \in BOOLEAN : command_wq(wr_ok)
    \/ loop_exit
    \/ main_cleanup

SpecAutosave == InitAutosave /\ [][NextAutosave]_vars

\* The loop with modules loaded, enabled and disabled while it runs.
InitModules ==
    /\ InitFields
    /\ disk = <<>>
    /\ steps = 0
    /\ script = Free
    /\ SearchIdle
    /\ ModulesIdle
    /\ MainIdle

\* The keys typed while modules are loaded: 'a', Ctrl+Y and Ctrl+Z.
ModuleKeys == {<<97>>, <<25>>, <<26>>}

NextModules ==
    \/ pc = "editor_run" /\ tab_add_file(FALSE, TRUE, TRUE)
    \/ \E handle_ok \in BOOLEAN, has_init \in BOOLEAN,
          init_result \in InitResults, has_on_key \in BOOLEAN :
          command_module_load(handle_ok, has_init, init_result, has_on_key,
                              TRUE)
    \/ \E index \in 0..(MAX_MODULES - 1) : call_module_disable(index)
    \/ \E index \in 0..(MAX_MODULES - 1) : call_module_enable(index)
    \/ \E bytes \in ModuleKeys : loop_get_key(bytes, MaxModuleKeys)
    \/ loop_notify
    \/ loop_dispatch(TRUE)

SpecModules == InitModules /\ [][NextModules]_vars

\* The loop with Ctrl+S typed while modules are loaded, enabled and disabled.
MaxSaveKeys == 3
SaveKeys == {<<97>>, <<19>>}

NextSave ==
    \/ pc = "editor_run" /\ \E named \in BOOLEAN :
                               tab_add_file(named, TRUE, TRUE)
    \/ \E has_on_save \in BOOLEAN :
          command_module_load(TRUE, FALSE, 0, TRUE, has_on_save)
    \/ \E index \in 0..(MAX_MODULES - 1) : call_module_disable(index)
    \/ \E index \in 0..(MAX_MODULES - 1) : call_module_enable(index)
    \/ \E bytes \in SaveKeys : loop_get_key(bytes, MaxSaveKeys)
    \/ loop_notify
    \/ \E wr_ok \in BOOLEAN : loop_dispatch(wr_ok)

SpecSave == InitModules /\ [][NextSave]_vars

(***************************************************************************)
(* Tabs: session_load, Ctrl+T and Ctrl+W.                                  *)
(***************************************************************************)
\* The source has MAX_TABS 32.
MAX_TABS == 3
MaxTabSteps == 8

\* The "[tab:N]" lines of a session file, each followed by one "file=" line.
SessionFiles == {<<>>, <<0>>, <<1>>, <<0, 1>>, <<1, 2>>}

NextTabId == Maximum({tabs[i].id : i \in 1..Len(tabs)} \cup {0}) + 1

TabStep(name) ==
    /\ steps < MaxTabSteps
    /\ steps' = steps + 1
    /\ last' = name
    /\ UNCHANGED <<fileVars, script, searchVars, moduleVars, mainVars,
                   clipVars, screenVars, compiler, lexer>>

\* session_load: a "[tab:N]" line with N >= tab_count appends one tab named
\* "restored"; the "file=" line adds a file to tabs[N].  active_tab is not
\* assigned.
RECURSIVE SessionTabs(_, _, _, _)
SessionTabs(ts, hp, lines, i) ==
    IF i > Len(lines) THEN [tabs |-> ts, heap |-> hp]
    ELSE LET current_tab == lines[i]
             t1 == IF current_tab >= Len(ts)
                   THEN Append(ts, tab_init("restored",
                                   Maximum({ts[k].id : k \in 1..Len(ts)}) + 1))
                   ELSE ts
             t2 == IF current_tab < Len(t1)
                   THEN [t1 EXCEPT ![current_tab + 1] =
                            tab_files_add(@, Len(hp) + 1)]
                   ELSE t1
             h2 == IF current_tab < Len(t1)
                   THEN FileMalloc(hp, t1[current_tab + 1])
                   ELSE Append(hp, 0)
         IN  SessionTabs(t2, h2, lines, i + 1)

\* main, "Load session if specified" and "Open files from args" without a
\* file argument: tab_add_file(&g_state.tabs[g_state.active_tab], NULL)
main_session_load(lines) ==
    /\ last = "editor_init"
    /\ LET r == SessionTabs(tabs, heap, lines, 1)
           ts == r.tabs
       IN  /\ tabs' = [ts EXCEPT ![active_tab + 1] =
                           tab_files_add(@, Len(r.heap) + 1)]
           /\ heap' = FileMalloc(r.heap, ts[active_tab + 1])
           /\ tab_count' = Len(ts)
    /\ active_tab' = active_tab
    /\ status_message' = "Session loaded"
    /\ TabStep("session_load")

\* editor_process_key, Ctrl+T
key_ctrl_t ==
    /\ last # "editor_init"
    /\ IF tab_count < MAX_TABS
       THEN /\ tabs' = Append(SubSeq(tabs, 1, tab_count),
                    tab_files_add(tab_init("untitled", NextTabId),
                                  Len(heap) + 1))
            /\ heap' = Append(heap, 0)
            /\ active_tab' = tab_count
            /\ tab_count' = tab_count + 1
            /\ status_message' = "New tab created"
       ELSE UNCHANGED <<tabVars, status_message>>
    /\ TabStep("ctrl_t")

ctrl_w_keeps_active(ts, count, active) ==
    IF count > 1
    THEN [tabs |-> SubSeq(ts, 1, count - 1), tab_count |-> count - 1,
          active_tab |-> active, closed |-> TRUE]
    ELSE [tabs |-> ts, tab_count |-> count, active_tab |-> active,
          closed |-> FALSE]

\* editor_process_key, Ctrl+W: tab_count--, and active_tab is moved to the
\* last tab left when it was beyond it.
ctrl_w(ts, count, active) ==
    IF count > 1
    THEN [tabs |-> SubSeq(ts, 1, count - 1),
          tab_count |-> count - 1,
          active_tab |-> IF active >= count - 1 THEN count - 2 ELSE active,
          closed |-> TRUE]
    ELSE [tabs |-> ts, tab_count |-> count, active_tab |-> active,
          closed |-> FALSE]

key_ctrl_w ==
    /\ last # "editor_init"
    /\ LET r == ctrl_w(tabs, tab_count, active_tab)
       IN  /\ tabs' = r.tabs
           /\ tab_count' = r.tab_count
           /\ active_tab' = r.active_tab
           /\ heap' = heap
           /\ status_message' = IF r.closed THEN "Tab closed"
                                ELSE status_message
    /\ TabStep("ctrl_w")

InitTabs ==
    /\ InitFields
    /\ disk = <<>>
    /\ steps = 0
    /\ script = Free
    /\ SearchIdle
    /\ ModulesIdle
    /\ MainIdle

NextTabs ==
    \/ \E lines \in SessionFiles : main_session_load(lines)
    \/ key_ctrl_t
    \/ key_ctrl_w

SpecTabs == InitTabs /\ [][NextTabs]_vars

(***************************************************************************)
(* The files of the tabs: opening, switching, closing, editor_cleanup.     *)
(***************************************************************************)
MaxFileSteps == 6

FileStep(name) ==
    /\ last \notin {"editor_init", "editor_cleanup"}
    /\ steps < MaxFileSteps
    /\ TabStep(name)

\* menu_callback_open_file: tab_add_file(&g_state.tabs[g_state.active_tab],
\* filename)
menu_callback_open_file ==
    /\ tabs' = [tabs EXCEPT ![active_tab + 1] =
                    tab_files_add(@, Len(heap) + 1)]
    /\ heap' = FileMalloc(heap, tabs[active_tab + 1])
    /\ UNCHANGED <<tab_count, active_tab, status_message>>
    /\ FileStep("open_file")

\* editor_process_key, "Tab key - switch files"
key_tab ==
    /\ LET tab == tabs[active_tab + 1]
       IN  IF tab.file_count > 1
           THEN /\ tabs' = [tabs EXCEPT ![active_tab + 1].active_file =
                                (@ + 1) % tab.file_count]
                /\ status_message' = "Switched to file"
           ELSE UNCHANGED <<tabs, status_message>>
    /\ UNCHANGED <<tab_count, active_tab, heap>>
    /\ FileStep("key_tab")

\* menu_callback_close_file
menu_callback_close_file ==
    /\ LET tab == tabs[active_tab + 1]
           closed == tab_close_file(tab, tab.active_file)
           freed == FileFree(heap, ClosedFile(tab, tab.active_file))
       IN  IF tab.file_count > 0
           THEN /\ tabs' = [tabs EXCEPT ![active_tab + 1] =
                               IF closed.file_count = 0
                               THEN tab_files_add(closed, Len(freed) + 1)
                               ELSE closed]
                /\ heap' = IF closed.file_count = 0
                           THEN FileMalloc(freed, closed) ELSE freed
                /\ status_message' = "File closed"
           ELSE UNCHANGED <<tabs, heap, status_message>>
    /\ UNCHANGED <<tab_count, active_tab>>
    /\ FileStep("close_file")

\* editor_cleanup, the inner loop: for (f = 0; f < tab->file_count; f++)
\* tab_close_file(tab, f)
RECURSIVE CleanupFiles(_, _, _)
CleanupFiles(tab, hp, f) ==
    IF f < tab.file_count
    THEN CleanupFiles(tab_close_file(tab, f), FileFree(hp, ClosedFile(tab, f)),
                      f + 1)
    ELSE [tab |-> tab, heap |-> hp]

\* editor_cleanup, the outer loop: for (t = 0; t < g_state.tab_count; t++)
RECURSIVE CleanupTabs(_, _, _)
CleanupTabs(ts, hp, t) ==
    IF t < tab_count
    THEN LET r == CleanupFiles(ts[t + 1], hp, 0)
         IN  CleanupTabs([ts EXCEPT ![t + 1] = r.tab], r.heap, t + 1)
    ELSE [tabs |-> ts, heap |-> hp]

\* editor_cleanup, after module_unload_all
editor_cleanup ==
    /\ LET r == CleanupTabs(tabs, heap, 0)
       IN  /\ tabs' = r.tabs
           /\ heap' = r.heap
    /\ UNCHANGED <<tab_count, active_tab, status_message>>
    /\ FileStep("editor_cleanup")

NextFiles ==
    \/ \E lines \in SessionFiles : main_session_load(lines)
    \/ last # "editor_cleanup" /\ steps < MaxFileSteps /\ key_ctrl_t
    \/ menu_callback_open_file
    \/ key_tab
    \/ menu_callback_close_file
    \/ editor_cleanup

SpecFiles == InitTabs /\ [][NextFiles]_vars

(***************************************************************************)
(* Cursor movement and the visual selection.                               *)
(***************************************************************************)
MaxViewSteps == 5

\* "ab\nc", "a\n\n b" and "a b": rows of different lengths.
ViewFiles == {<<97, 98, 10, 99>>, <<97, 10, 10, 32, 98>>, <<97, 32, 98>>}

isalnum(c) == c \in 48..57 \/ c \in 65..90 \/ c \in 97..122
isspace(c) == c = 32 \/ c \in 9..13

int_min(a, b) == IF a < b THEN a ELSE b
int_max(a, b) == IF a > b THEN a ELSE b

\* line[col] in the static line_buffer: the text, its terminator, and past
\* the terminator whatever an earlier call left there.
LineAt(line, col) ==
    IF col < Len(line) THEN line[col + 1]
    ELSE IF col = Len(line) THEN 0
    ELSE INDETERMINATE

\* The FileBuffer the cursor functions are given.
ViewFb ==
    [buffer |-> buffer, cursor_row |-> cursor_row, cursor_col |-> cursor_col,
     line_count |-> line_count, row_offset |-> viewport.row_offset,
     selection |-> selection]

\* line_len after buffer_get_line(fb->buffer, row, &line_len)
LineLen(fb, row) == Len(buffer_get_line(fb.buffer, row).line)

\* "Adjust cursor_col if new line is shorter"
AdjustCol(fb) ==
    IF buffer_get_line(fb.buffer, fb.cursor_row).ok
          /\ fb.cursor_col > LineLen(fb, fb.cursor_row)
    THEN [fb EXCEPT !.cursor_col = LineLen(fb, fb.cursor_row)]
    ELSE fb

cursor_move_up(fb) ==
    IF fb.cursor_row > 0
    THEN LET f1 == AdjustCol([fb EXCEPT !.cursor_row = @ - 1])
         IN  IF f1.cursor_row < f1.row_offset
             THEN [f1 EXCEPT !.row_offset = f1.cursor_row] ELSE f1
    ELSE fb

cursor_move_down(fb) ==
    IF fb.cursor_row < fb.line_count - 1
    THEN LET f1 == AdjustCol([fb EXCEPT !.cursor_row = @ + 1])
         IN  IF f1.cursor_row >= f1.row_offset + screen_rows - 5
             THEN [f1 EXCEPT !.row_offset = @ + 1] ELSE f1
    ELSE fb

cursor_move_left(fb) ==
    IF fb.cursor_col > 0 THEN [fb EXCEPT !.cursor_col = @ - 1]
    ELSE IF fb.cursor_row > 0
    THEN [fb EXCEPT !.cursor_row = @ - 1,
                    !.cursor_col = LineLen(fb, fb.cursor_row - 1)]
    ELSE fb

cursor_move_right(fb) ==
    IF fb.cursor_col < LineLen(fb, fb.cursor_row)
    THEN [fb EXCEPT !.cursor_col = @ + 1]
    ELSE IF fb.cursor_row < fb.line_count - 1
    THEN [fb EXCEPT !.cursor_row = @ + 1, !.cursor_col = 0]
    ELSE fb

\* while (col < line_len && class(line[col])) col++
RECURSIVE SkipForward(_, _, _)
SkipForward(line, col, alnum) ==
    IF col < Len(line)
          /\ (IF alnum THEN isalnum(line[col + 1]) ELSE isspace(line[col + 1]))
    THEN SkipForward(line, col + 1, alnum)
    ELSE col

cursor_move_word_forward(fb) ==
    LET got == buffer_get_line(fb.buffer, fb.cursor_row)
    IN  IF ~got.ok THEN fb
        ELSE [fb EXCEPT !.cursor_col =
                 SkipForward(got.line,
                             SkipForward(got.line, fb.cursor_col, TRUE),
                             FALSE)]

\* while (col > 0 && isspace(line[col])) col--
RECURSIVE SkipSpaceBack(_, _)
SkipSpaceBack(line, col) ==
    IF col > 0 /\ isspace(LineAt(line, col))
    THEN SkipSpaceBack(line, col - 1) ELSE col

\* while (col > 0 && isalnum(line[col - 1])) col--
RECURSIVE SkipWordBack(_, _)
SkipWordBack(line, col) ==
    IF col > 0 /\ isalnum(LineAt(line, col - 1))
    THEN SkipWordBack(line, col - 1) ELSE col

cursor_move_word_backward(fb) ==
    LET got == buffer_get_line(fb.buffer, fb.cursor_row)
    IN  IF fb.cursor_col = 0 \/ ~got.ok THEN fb
        ELSE [fb EXCEPT !.cursor_col =
                 SkipWordBack(got.line,
                              SkipSpaceBack(got.line, fb.cursor_col - 1))]

cursor_move_line_start(fb) == [fb EXCEPT !.cursor_col = 0]

cursor_move_line_end(fb) ==
    [fb EXCEPT !.cursor_col = LineLen(fb, fb.cursor_row)]

cursor_move_buffer_start(fb) ==
    [fb EXCEPT !.cursor_row = 0, !.cursor_col = 0, !.row_offset = 0]

cursor_move_buffer_end(fb) ==
    [fb EXCEPT !.cursor_row = fb.line_count - 1, !.cursor_col = 0,
               !.row_offset = int_max(0, fb.line_count - screen_rows + 5)]

cursor_page_up(fb) ==
    LET page_size == screen_rows - 5
    IN  [fb EXCEPT !.cursor_row = int_max(0, fb.cursor_row - page_size),
                   !.row_offset = int_max(0, fb.row_offset - page_size)]

cursor_page_down(fb) ==
    LET page_size == screen_rows - 5
    IN  [fb EXCEPT
            !.cursor_row = int_min(fb.line_count - 1, fb.cursor_row + page_size),
            !.row_offset = int_min(fb.line_count - 1, fb.row_offset + page_size)]

visual_mode_start(fb) ==
    [fb EXCEPT !.selection =
        [active |-> TRUE, start_row |-> fb.cursor_row,
         start_col |-> fb.cursor_col, end_row |-> fb.cursor_row,
         end_col |-> fb.cursor_col]]

visual_mode_update(fb) ==
    [fb EXCEPT !.selection.end_row = fb.cursor_row,
               !.selection.end_col = fb.cursor_col]

\* The inner loop of visual_mode_copy over the columns of one row.
CopyCols(line, col_start, col_end) ==
    [i \in 1..int_max(0, col_end - col_start) |->
        LineAt(line, col_start + i - 1)]

\* The outer loop of visual_mode_copy from row to end_row.
RECURSIVE CopyRows(_, _, _, _, _, _)
CopyRows(fb, row, start_row, end_row, start_col, end_col) ==
    IF row > end_row THEN <<>>
    ELSE
        LET got == buffer_get_line(fb.buffer, row)
            col_start == IF row = start_row THEN start_col ELSE 0
            col_end == IF row = end_row THEN end_col ELSE Len(got.line)
            rest == CopyRows(fb, row + 1, start_row, end_row, start_col,
                             end_col)
        IN  IF ~got.ok THEN rest
            ELSE CopyCols(got.line, col_start, col_end)
                    \o (IF row < end_row THEN <<NEWLINE>> ELSE <<>>)
                    \o rest

\* clipboard_set(text, len, line_mode)
clipboard_set(text, line_mode) ==
    [content |-> text, is_line_mode |-> line_mode]

\* visual_mode_copy: the clipboard it leaves; clip is the clipboard before.
visual_mode_copy(fb, clip) ==
    IF ~fb.selection.active THEN clip
    ELSE
        LET sel == fb.selection
            start_row == int_min(sel.start_row, sel.end_row)
            end_row == int_max(sel.start_row, sel.end_row)
            start_col == int_min(sel.start_col, sel.end_col)
            end_col == int_max(sel.start_col, sel.end_col)
        IN  clipboard_set(CopyRows(fb, start_row, start_row, end_row,
                                   start_col, end_col), FALSE)

ViewFrame ==
    /\ steps < MaxViewSteps
    /\ steps' = steps + 1
    /\ file_count = 1
    /\ UNCHANGED <<buffer, file_count, has_filepath, modified, disk, orig,
                   tip, recorded, unrecorded, evicted, script, searchVars,
                   moduleVars, pc, last_key, exit_command, running, console,
                   proc, tabVars, screenVars, compiler, lexer>>

CursorStep(fb, name) ==
    /\ cursor_row' = fb.cursor_row
    /\ cursor_col' = fb.cursor_col
    /\ viewport' = [viewport EXCEPT !.row_offset = fb.row_offset]
    /\ last' = name
    /\ ViewFrame
    /\ UNCHANGED <<status_message, mode, clipVars>>

call_cursor_move_up == CursorStep(cursor_move_up(ViewFb), "cursor_move_up")
call_cursor_move_down == CursorStep(cursor_move_down(ViewFb), "cursor_move_down")
call_cursor_move_left == CursorStep(cursor_move_left(ViewFb), "cursor_move_left")
call_cursor_move_right == CursorStep(cursor_move_right(ViewFb), "cursor_move_right")
call_cursor_move_word_forward ==
    CursorStep(cursor_move_word_forward(ViewFb), "cursor_move_word_forward")
call_cursor_move_word_backward ==
    CursorStep(cursor_move_word_backward(ViewFb), "cursor_move_word_backward")
call_cursor_move_line_start ==
    CursorStep(cursor_move_line_start(ViewFb), "cursor_move_line_start")
call_cursor_move_line_end ==
    CursorStep(cursor_move_line_end(ViewFb), "cursor_move_line_end")
call_cursor_move_buffer_start ==
    CursorStep(cursor_move_buffer_start(ViewFb), "cursor_move_buffer_start")
call_cursor_move_buffer_end ==
    CursorStep(cursor_move_buffer_end(ViewFb), "cursor_move_buffer_end")
call_cursor_page_up == CursorStep(cursor_page_up(ViewFb), "cursor_page_up")
call_cursor_page_down == CursorStep(cursor_page_down(ViewFb), "cursor_page_down")

call_visual_mode_start ==
    /\ selection' = visual_mode_start(ViewFb).selection
    /\ mode' = MODE_VISUAL
    /\ status_message' = "-- VISUAL --"
    /\ last' = "visual_mode_start"
    /\ ViewFrame
    /\ UNCHANGED <<cursor_row, cursor_col, viewport, clipboard>>

call_visual_mode_update ==
    /\ selection.active
    /\ selection' = visual_mode_update(ViewFb).selection
    /\ last' = "visual_mode_update"
    /\ ViewFrame
    /\ UNCHANGED <<cursor_row, cursor_col, viewport, clipboard, mode,
                   status_message>>

\* menu_callback_copy: visual_mode_copy when the selection is active
menu_callback_copy ==
    /\ selection.active
    /\ clipboard' = visual_mode_copy(ViewFb, clipboard)
    /\ status_message' = "Copied %d bytes"
    /\ last' = "visual_mode_copy"
    /\ ViewFrame
    /\ UNCHANGED <<cursor_row, cursor_col, viewport, selection, mode>>

\* The number of rows of a text.
NumRows(text) == Cardinality({i \in 1..Len(text) : text[i] = NEWLINE}) + 1

\* A file of ViewFiles is open with the cursor at (0, 0); fb->line_count,
\* which no reachable code assigns, holds any value up to one more than
\* the number of rows.
InitView ==
    /\ disk \in ViewFiles
    /\ buffer = buffer_load_file(buffer_create(TRUE), disk, TRUE)
    /\ file_count = 1
    /\ has_filepath = TRUE
    /\ modified = FALSE
    /\ cursor_row = 0
    /\ cursor_col = 0
    /\ status_message = "GNU ede - Press Ctrl+Q to exit"
    /\ orig = disk
    /\ tip = disk
    /\ recorded = 0
    /\ unrecorded = FALSE
    /\ evicted = FALSE
    /\ last = "tab_add_file"
    /\ steps = 0
    /\ script = Free
    /\ search = [pattern |-> <<>>, replace_text |-> <<>>,
                 case_sensitive |-> FALSE, whole_word |-> FALSE,
                 current_match |-> 0]
    /\ line_count \in 0..(NumRows(disk) + 1)
    /\ ret = 0
    /\ ModulesIdle
    /\ MainIdle

NextView ==
    \/ call_cursor_move_up
    \/ call_cursor_move_down
    \/ call_cursor_move_left
    \/ call_cursor_move_right
    \/ call_cursor_move_word_forward
    \/ call_cursor_move_word_backward
    \/ call_cursor_move_line_start
    \/ call_cursor_move_line_end
    \/ call_cursor_move_buffer_start
    \/ call_cursor_move_buffer_end
    \/ call_cursor_page_up
    \/ call_cursor_page_down
    \/ call_visual_mode_start
    \/ call_visual_mode_update
    \/ menu_callback_copy

SpecView == InitView /\ [][NextView]_vars

(***************************************************************************)
(* The ESRC compiler, on the tokens esrc_lexer_next_token returns before   *)
(* ESRC_TOKEN_EOF: the keyword "function", another keyword, an identifier, *)
(* a number.                                                               *)
(***************************************************************************)
MaxTokens == 3

EsrcTokens == {"function", "KEYWORD", "IDENTIFIER", "NUMBER"}

EsrcSources ==
    UNION {[1..n -> EsrcTokens] : n \in 0..MaxTokens}

\* The loop of esrc_parse_and_compile from token i on; c_file is what has
\* been printed to compiler->output so far.
RECURSIVE ParseLoop(_, _, _)
ParseLoop(tokens, i, c_file) ==
    IF i > Len(tokens)
    THEN [rv |-> 0, error_count |-> 0, c_file |-> c_file]
    ELSE IF tokens[i] = "function"
    THEN IF i + 1 > Len(tokens) \/ tokens[i + 1] # "IDENTIFIER"
         THEN [rv |-> -1, error_count |-> 1, c_file |-> c_file]
         ELSE ParseLoop(tokens, i + 2, Append(c_file, "function"))
    ELSE ParseLoop(tokens, i + 1, c_file)

esrc_parse_and_compile(tokens, c_file) == ParseLoop(tokens, 1, c_file)

\* esrc_compile with the files it leaves: c_file is the content of
\* "<emod_path>.c", c_exists whether that file is on disk on return,
\* emod_exists whether gcc produced the module.
esrc_compile_files(tokens, src_ok, out_ok, cc_ok) ==
    IF ~src_ok \/ ~out_ok
    THEN [NoCompile EXCEPT !.source = tokens,
                           !.rv = esrc_compile(src_ok, out_ok, TRUE, cc_ok),
                           !.done = TRUE]
    ELSE
        LET parsed == esrc_parse_and_compile(tokens, <<"header", "metadata">>)
            result == parsed.rv
        IN  [source |-> tokens,
             c_file |-> parsed.c_file \o <<"module_init", "module_cleanup">>,
             c_exists |-> ~(result = 0 /\ cc_ok),
             emod_exists |-> (result = 0 /\ cc_ok),
             error_count |-> parsed.error_count,
             rv |-> esrc_compile(src_ok, out_ok, result = 0, cc_ok),
             done |-> TRUE]

call_esrc_compile(tokens, src_ok, out_ok, cc_ok) ==
    /\ ~compiler.done
    /\ compiler' = esrc_compile_files(tokens, src_ok, out_ok, cc_ok)
    /\ last' = "esrc_compile"
    /\ UNCHANGED <<fileVars, status_message, steps, script, searchVars,
                   moduleVars, mainVars, tabVars, clipVars, screenVars,
                   lexer>>

InitEsrc == InitTabs

NextEsrc ==
    \E tokens \in EsrcSources, src_ok \in BOOLEAN, out_ok \in BOOLEAN,
       cc_ok \in BOOLEAN :
        call_esrc_compile(tokens, src_ok, out_ok, cc_ok)

SpecEsrc == InitEsrc /\ [][NextEsrc]_vars

(***************************************************************************)
(* Drawing: editor_refresh_screen and render_syntax_highlighted_line.      *)
(* screen holds the text printed for each screen row of the file area,     *)
(* highlight the class render_syntax_highlighted_line gives each           *)
(* character of each row it is called on.                                  *)
(***************************************************************************)
MaxScreenSteps == 2

\* "/" "*" and "a"
ScreenKeys == {47, 42, 97}

\* "a\0b", "/*\na", "a\n*/" and the empty file
ScreenFiles == {<<97, 0, 98>>, <<47, 42, 10, 97>>, <<97, 10, 42, 47>>, <<>>}

MaxHighlightRows == 3

\* The rows "/*", "a", "*/a" and "//1"
HighlightRows == {<<47, 42>>, <<97>>, <<42, 47, 97>>, <<47, 47, 49>>}

HighlightInputs ==
    UNION {[1..n -> HighlightRows] : n \in 1..MaxHighlightRows}

isdigit(c) == c \in 48..57

\* printf("%s", line): the bytes before the first NUL
RECURSIVE PrintS(_)
PrintS(line) ==
    IF line = <<>> \/ Head(line) = 0 THEN <<>>
    ELSE <<Head(line)>> \o PrintS(Tail(line))

\* The index of the closing quote of the string that opens at i, or
\* line_len: i++; while (i < line_len && line[i] != '"') i++
RECURSIVE StringEnd(_, _)
StringEnd(line, i) ==
    IF i < Len(line) /\ line[i + 1] # 34 THEN StringEnd(line, i + 1) ELSE i

\* The loop of render_syntax_highlighted_line from index i on, with
\* config.syntax_highlighting set: the colour each character is printed in.
RECURSIVE HighlightLoop(_, _)
HighlightLoop(line, i) ==
    IF i >= Len(line) THEN <<>>
    ELSE
        LET c == line[i + 1]
        IN  IF c = 34
            THEN LET e == StringEnd(line, i + 1)
                     last_i == IF e < Len(line) THEN e ELSE Len(line) - 1
                 IN  [k \in 1..(last_i - i + 1) |-> "string"]
                        \o HighlightLoop(line, e + 1)
            ELSE IF c = 47 /\ i + 1 < Len(line) /\ line[i + 2] = 47
            THEN [k \in 1..Len(PrintS(LineFrom(line, i))) |-> "comment"]
            ELSE IF isdigit(c)
            THEN <<"number">> \o HighlightLoop(line, i + 1)
            ELSE <<"plain">> \o HighlightLoop(line, i + 1)

render_syntax_highlighted_line(line, syntax_highlighting) ==
    IF ~syntax_highlighting
    THEN [k \in 1..Len(PrintS(line)) |-> "plain"]
    ELSE HighlightLoop(line, 0)

ScreenFrame ==
    /\ steps < MaxScreenSteps
    /\ steps' = steps + 1
    /\ file_count > 0
    /\ UNCHANGED <<fileVars, status_message, script, searchVars, moduleVars,
                   mainVars, tabVars, clipVars, screen_rows, compiler,
                   lexer>>

\* editor_refresh_screen, "Draw file content"
editor_refresh_screen ==
    /\ screen' = [i \in 1..(screen_rows - 3) |->
                    LET got == buffer_get_line(buffer,
                                               i - 1 + viewport.row_offset)
                    IN  IF got.ok THEN PrintS(got.line) ELSE <<126>>]
    /\ last' = "editor_refresh_screen"
    /\ ScreenFrame
    /\ UNCHANGED highlight

\* render_syntax_highlighted_line on the rows given, first to last; no
\* function of the source makes this call.  highlight keeps the rows and
\* the classes of their characters.
call_render_syntax_highlighted_line(rows, syntax_highlighting) ==
    /\ highlight' = [rows |-> rows,
                     classes |-> [i \in 1..Len(rows) |->
                                     render_syntax_highlighted_line(
                                         rows[i], syntax_highlighting)]]
    /\ last' = IF syntax_highlighting THEN "render_syntax_highlighted_line"
               ELSE "render_plain"
    /\ ScreenFrame
    /\ UNCHANGED screen

screen_key(key) ==
    /\ steps < MaxScreenSteps
    /\ editor_process_key(key, TRUE)

InitScreen ==
    /\ disk \in ScreenFiles
    /\ buffer = buffer_load_file(buffer_create(TRUE), disk, TRUE)
    /\ file_count = 1
    /\ has_filepath = TRUE
    /\ modified = FALSE
    /\ cursor_row = 0
    /\ cursor_col = 0
    /\ status_message = "GNU ede - Press Ctrl+Q to exit"
    /\ orig = disk
    /\ tip = disk
    /\ recorded = 0
    /\ unrecorded = FALSE
    /\ evicted = FALSE
    /\ last = "tab_add_file"
    /\ steps = 0
    /\ script = Free
    /\ SearchIdle
    /\ ModulesIdle
    /\ MainIdle

NextScreen ==
    \/ \E key \in ScreenKeys : screen_key(key)
    \/ editor_refresh_screen
    \/ \E rows \in HighlightInputs, on \in BOOLEAN :
          call_render_syntax_highlighted_line(rows, on)

SpecScreen == InitScreen /\ [][NextScreen]_vars

(***************************************************************************)
(* The ESRC lexer, character by character: esrc_lexer_next_token and one   *)
(* iteration at a time of the loops of esrc_lexer_read_identifier,         *)
(* esrc_lexer_read_number and esrc_lexer_read_string.  The local buffers   *)
(* of the read functions are scaled down.                                  *)
(***************************************************************************)
\* char buffer[256] of read_identifier and read_number, buffer[1024] of
\* read_string
TOKEN_BUFFER == 3
STRING_BUFFER == 4

MaxSourceLen == 4
MaxLexRounds == 6

\* "a", "1", the double quote, the space and ";"
LexChars == {97, 49, 34, 32, 59}

LexSources == UNION {[1..n -> LexChars] : n \in 0..MaxSourceLen}

isalpha(c) == c \in 65..90 \/ c \in 97..122

\* esrc_lexer_peek
esrc_lexer_peek(lx) ==
    IF lx.position >= Len(lx.source) THEN 0 ELSE lx.source[lx.position + 1]

\* esrc_lexer_advance
esrc_lexer_advance(lx) ==
    IF lx.position >= Len(lx.source) THEN lx
    ELSE [lx EXCEPT !.position = @ + 1]

RECURSIVE esrc_lexer_skip_whitespace(_)
esrc_lexer_skip_whitespace(lx) ==
    IF isspace(esrc_lexer_peek(lx))
    THEN esrc_lexer_skip_whitespace(esrc_lexer_advance(lx))
    ELSE lx

\* while (peek != '\n' && peek != '\0') advance
RECURSIVE SkipLine(_)
SkipLine(lx) ==
    IF esrc_lexer_peek(lx) # NEWLINE /\ esrc_lexer_peek(lx) # 0
    THEN SkipLine(esrc_lexer_advance(lx)) ELSE lx

\* source[position + 1] is the terminator at the end of the source
esrc_lexer_skip_comment(lx) ==
    IF esrc_lexer_peek(lx) = 47
          /\ lx.position + 1 < Len(lx.source)
          /\ lx.source[lx.position + 2] = 47
    THEN SkipLine(lx) ELSE lx

\* esrc_lexer_next_token up to the call of a read function; a token of one
\* character is read on the spot.
esrc_lexer_next_token(lx) ==
    LET l1 == esrc_lexer_skip_whitespace(
                  esrc_lexer_skip_comment(esrc_lexer_skip_whitespace(lx)))
        c == esrc_lexer_peek(l1)
    IN  IF c = 0 THEN [l1 EXCEPT !.in = "eof"]
        ELSE IF isalpha(c) \/ c = 95
        THEN [l1 EXCEPT !.in = "read_identifier", !.i = 0]
        ELSE IF isdigit(c) THEN [l1 EXCEPT !.in = "read_number", !.i = 0]
        ELSE IF c = 34
        THEN [esrc_lexer_advance(l1) EXCEPT !.in = "read_string", !.i = 0]
        ELSE esrc_lexer_advance(l1)

\* One test of the loop condition of esrc_lexer_read_identifier and, when
\* it holds, one execution of the body; otherwise the token is returned.
read_identifier_round(lx) ==
    IF isalnum(esrc_lexer_peek(lx)) \/ esrc_lexer_peek(lx) = 95
    THEN IF lx.i < TOKEN_BUFFER - 1
         THEN [esrc_lexer_advance(lx) EXCEPT !.i = @ + 1]
         ELSE lx
    ELSE [lx EXCEPT !.in = "none"]

read_number_round(lx) ==
    IF isdigit(esrc_lexer_peek(lx)) \/ esrc_lexer_peek(lx) = 46
    THEN IF lx.i < TOKEN_BUFFER - 1
         THEN [esrc_lexer_advance(lx) EXCEPT !.i = @ + 1]
         ELSE lx
    ELSE [lx EXCEPT !.in = "none"]

\* The sources hold no backslash: the escape branch is left out.  After the
\* loop the closing quote is skipped.
read_string_round(lx) ==
    IF esrc_lexer_peek(lx) # 34 /\ esrc_lexer_peek(lx) # 0
    THEN IF lx.i < STRING_BUFFER - 1
         THEN [esrc_lexer_advance(lx) EXCEPT !.i = @ + 1]
         ELSE lx
    ELSE [esrc_lexer_advance(lx) EXCEPT !.in = "none"]

LexFrame ==
    UNCHANGED <<coreVars, steps, script, searchVars, moduleVars, mainVars,
                tabVars, clipVars, screenVars, compiler>>

\* esrc_parse_and_compile asks for the next token.
call_esrc_lexer_next_token ==
    /\ lexer.in = "none"
    /\ lexer' = [esrc_lexer_next_token(lexer) EXCEPT !.calls = @ + 1]
    /\ LexFrame

InLexLoop == lexer.in \in {"read_identifier", "read_number", "read_string"}

lexer_round ==
    /\ InLexLoop
    /\ lexer.rounds < MaxLexRounds
    /\ lexer' = [(IF lexer.in = "read_identifier"
                  THEN read_identifier_round(lexer)
                  ELSE IF lexer.in = "read_number"
                  THEN read_number_round(lexer)
                  ELSE read_string_round(lexer))
                 EXCEPT !.rounds = @ + 1]
    /\ LexFrame

\* esrc_lexer_init on a source
InitLexer ==
    /\ InitFields
    /\ disk = <<>>
    /\ steps = 0
    /\ script = Free
    /\ SearchIdle
    /\ ModulesIdle
    /\ pc = "editor_run"
    /\ last_key = NoKey
    /\ mode = MODE_NORMAL
    /\ exit_command = <<>>
    /\ running = TRUE
    /\ console = [mode |-> {ENABLE_VIRTUAL_TERMINAL_PROCESSING},
                  orig |-> {ENABLE_VIRTUAL_TERMINAL_PROCESSING},
                  tty |-> TRUE]
    /\ proc = NoArgs
    /\ viewport = [row_offset |-> 0, col_offset |-> 0]
    /\ tabs = <<tab_init("untitled", 0)>>
    /\ tab_count = 1
    /\ active_tab = 0
    /\ heap = <<>>
    /\ clipboard = NoClipboard
    /\ selection = NoSelection
    /\ screen_rows = DefaultScreenRows
    /\ screen = <<>>
    /\ highlight = NoHighlight
    /\ compiler = NoCompile
    /\ \E source \in LexSources :
          lexer = [NoLexer EXCEPT !.source = source, !.in = "none"]

NextLexer ==
    \/ call_esrc_lexer_next_token
    \/ lexer_round

SpecLexer == InitLexer /\ [][NextLexer]_vars

(***************************************************************************)
(* Properties.                                                             *)
(***************************************************************************)
Defined == file_count = 1 /\ buffer.fault = "none"
IsEdit(l) == l \in {"key", "api_insert_text"}

\* C1: after n recorded inserts/deletes, n undos give back the content the
\* buffer had before them, and n redos then give back the content reached
\* after them.
C1_UndoRedoInverse ==
    (Defined /\ buffer.hist_ok /\ ~unrecorded /\ ~evicted) =>
        /\ buffer.undo_stack = <<>> => Text(buffer) = orig
        /\ buffer.redo_stack = <<>> => Text(buffer) = tip

\* C2: every mutation made by a handler of the editor leaves a new top
\* entry on the undo stack, at the position of the mutation.
C2_MutationRecorded ==
    [][(IsEdit(last') /\ buffer' # buffer) =>
          /\ buffer'.undo_stack # <<>>
          /\ buffer'.undo_stack # buffer.undo_stack
          /\ Head(buffer'.undo_stack).position \in {CursorPos - 1, CursorPos}
      ]_vars

\* C3: an edit made by a handler of the editor after an undo empties the
\* redo stack.
C3_EditClearsRedo ==
    [][(IsEdit(last') /\ buffer' # buffer /\ buffer'.fault = "none"
          /\ buffer.redo_stack # <<>>) =>
          (buffer'.redo_stack = <<>> /\ buffer'.redo_count = 0)
      ]_vars

\* C4: the undo stack never holds more than MAX_UNDO_LEVELS entries, nor do
\* the undo and redo stacks together, and a push onto a full stack drops
\* exactly the oldest entry and keeps the others in order under the new one.
HistoryBounded ==
    /\ Len(buffer.undo_stack) <= MAX_UNDO_LEVELS
    /\ Len(buffer.undo_stack) + Len(buffer.redo_stack) <= MAX_UNDO_LEVELS
    /\ buffer.undo_count = Len(buffer.undo_stack)
    /\ buffer.redo_count = Len(buffer.redo_stack)

PushOnFullDropsOldest ==
    (/\ last' = "recorded_edit"
     /\ Len(buffer.undo_stack) = MAX_UNDO_LEVELS
     /\ buffer'.fault = "none") =>
        /\ Len(buffer'.undo_stack) = MAX_UNDO_LEVELS
        /\ Tail(buffer'.undo_stack)
              = SubSeq(buffer.undo_stack, 1, MAX_UNDO_LEVELS - 1)

C5_UndoOnEmptyIsNoop ==
    [][(last' = "undo" /\ buffer.hist_ok /\ buffer.undo_stack = <<>>) =>
          buffer' = buffer
      ]_vars

\* more edits than the capacity, every retained one undone, one more undo
C5_Witness ==
    /\ Defined /\ last = "undo" /\ evicted /\ ~unrecorded
    /\ recorded = MAX_UNDO_LEVELS + 1
    /\ steps = 2 * MAX_UNDO_LEVELS + 3
    /\ buffer.undo_stack = <<>>
    /\ buffer.redo_count = MAX_UNDO_LEVELS

\* C6: after 5 inserts, 2 deletes, 2 undos and 2 redos the content is the
\* content that followed the 5 inserts and 2 deletes.
C6_ScenarioIdentity ==
    (script.step = ScenarioEnd /\ Defined) => Text(buffer) = script.snap

C6_Witness ==
    /\ script.step = ScenarioEnd /\ script.mode = "recorded" /\ Defined
    /\ Len(script.snap) = ScenarioInserts - ScenarioDeletes
    /\ buffer.undo_stack # <<>>
    /\ last = "redo"

\* C7: undo_perform moves the top undo entry to the top of the redo stack,
\* redo_perform moves the top redo entry to the top of the undo stack; the
\* other entries stay and the counts follow.
UndoMovesTop ==
    (last' = "undo" /\ buffer.hist_ok /\ buffer.undo_stack # <<>>
        /\ buffer'.fault # "crash") =>
        /\ buffer'.undo_stack = Tail(buffer.undo_stack)
        /\ buffer'.redo_stack = <<Head(buffer.undo_stack)>> \o buffer.redo_stack
        /\ buffer'.undo_count = buffer.undo_count - 1
        /\ buffer'.redo_count = buffer.redo_count + 1

RedoMovesTop ==
    (last' = "redo" /\ buffer.hist_ok /\ buffer.redo_stack # <<>>
        /\ buffer'.fault # "crash") =>
        /\ buffer'.redo_stack = Tail(buffer.redo_stack)
        /\ buffer'.undo_stack = <<Head(buffer.redo_stack)>> \o buffer.undo_stack
        /\ buffer'.redo_count = buffer.redo_count - 1
        /\ buffer'.undo_count = buffer.undo_count + 1

C7_UndoRedoMoveTop == [][UndoMovesTop /\ RedoMovesTop]_vars

C7_Witness ==
    /\ Defined /\ last = "redo"
    /\ buffer.undo_stack # <<>> /\ buffer.redo_stack # <<>>

\* C8: opening a file of any size gives a buffer whose content is the
\* file's bytes, and saving it unedited writes those bytes.
C8_LoadSaveRoundTrip ==
    [][/\ (\E zeroed \in BOOLEAN : tab_add_file(TRUE, zeroed, TRUE)) =>
             (buffer'.fault = "none" /\ Text(buffer') = disk)
       /\ (editor_process_key(19, TRUE) /\ has_filepath /\ ~unrecorded) =>
             disk' = orig
      ]_vars

\* C9: when Ctrl+S cannot open the file for writing, the buffer stays
\* modified, its content is unchanged and the status is not "Saved".
C9_FailedSaveKeepsDirty ==
    [][(editor_process_key(19, FALSE) /\ has_filepath /\ modified) =>
          /\ modified'
          /\ status_message' # "Saved"
          /\ Text(buffer') = Text(buffer)
      ]_vars

\* C10: whatever position an insert or delete is given, the gap stays
\* inside the buffer (0 <= gap_start <= gap_end <= buffer_size) and nothing
\* is written outside the allocation.
C10_PositionsClamped ==
    [][(IsEdit(last') /\ buffer'.fault # "crash") =>
          /\ buffer'.fault # "corrupt"
          /\ 0 <= buffer'.gap_start
          /\ buffer'.gap_start <= buffer'.gap_end
          /\ buffer'.gap_end <= buffer'.buffer_size
      ]_vars

\* An occurrence of pattern at column col of line, as the claims mean it.
MatchesAt(line, col, pattern, case_sensitive) ==
    /\ col >= 0
    /\ col + Len(pattern) <= Len(line)
    /\ IF case_sensitive
       THEN SubSeq(line, col + 1, col + Len(pattern)) = pattern
       ELSE Lower(SubSeq(line, col + 1, col + Len(pattern))) = Lower(pattern)

IsWordChar(c) ==
    \/ c \in 48..57
    \/ c \in 65..90
    \/ c \in 97..122
    \/ c = 95

WholeWordAt(line, col, pattern) ==
    /\ col = 0 \/ ~IsWordChar(line[col])
    /\ col + Len(pattern) >= Len(line)
          \/ ~IsWordChar(line[col + Len(pattern) + 1])

Occurrences(line, pattern, case_sensitive) ==
    {col \in 0..Len(line) : MatchesAt(line, col, pattern, case_sensitive)}

IsFind(l) == l \in {"search_find_next", "command_search"}

\* C11: a successful search leaves the cursor on a start column at which
\* the pattern equals the text (case-folded when case-insensitive), and on
\* a whole word when whole_word is set.
C11_SearchReportsOccurrences ==
    [][(IsFind(last') /\ ret' = 1) =>
          /\ MatchesAt(Text(buffer), cursor_col', search'.pattern,
                       search'.case_sensitive)
          /\ search'.whole_word =>
                 WholeWordAt(Text(buffer), cursor_col', search'.pattern)
      ]_vars

\* C12: while the line holds an occurrence of the pattern, search_find_next
\* and search_find_prev find one; next from the last occurrence goes to the
\* first, prev from the first goes to the last.
C12_SearchCyclic ==
    [][LET occ == Occurrences(Text(buffer), search'.pattern,
                              search'.case_sensitive)
       IN  (/\ search'.pattern # <<>>
            /\ line_count = 1
            /\ occ # {}) =>
              /\ IsFind(last') =>
                    /\ ret' = 1
                    /\ cursor_col >= Maximum(occ) =>
                          cursor_col' = Minimum(occ)
              /\ last' = "search_find_prev" =>
                    /\ ret' = 1
                    /\ cursor_col <= Minimum(occ) =>
                          cursor_col' = Maximum(occ)
      ]_vars

\* C13: after search_replace_all with a replacement that does not contain
\* the pattern, a search for the pattern finds nothing in the buffer.
C13_ReplaceAllLeavesNone ==
    [][(/\ last' = "api_replace_text"
        /\ line_count = 1
        /\ search'.pattern # <<>>
        /\ search'.replace_text # <<>>
        /\ ~search_match(search'.replace_text, search'.pattern,
                         search'.case_sensitive)
        /\ buffer'.fault = "none") =>
          ~search_match(Text(buffer'), search'.pattern,
                        search'.case_sensitive)
      ]_vars

\* C14: with an empty pattern the four search functions change neither the
\* buffer, the cursor, the modified flag nor current_match.
C14_EmptyPatternNoop ==
    [][(/\ last' \in {"search_find_next", "search_find_prev",
                      "search_replace_current", "api_replace_text"}
        /\ search'.pattern = <<>>) =>
          /\ buffer' = buffer
          /\ cursor_row' = cursor_row
          /\ cursor_col' = cursor_col
          /\ modified' = modified
          /\ search'.current_match = search.current_match
      ]_vars

\* The modules module_trigger_on_key has to call: loaded, enabled, with an
\* on_key hook.
EnabledOnKey ==
    {modules[i].id : i \in {j \in 0..(module_count - 1) :
                               modules[j].enabled /\ modules[j].on_key}}

Dispatches == pc = "dispatch" /\ pc' # "dispatch"

NoFailedHookCalled == hooks.failed \cap hooks.called = {}

FailedLoadNotRegistered ==
    (last' = "module_load" /\ hooks'.failed # hooks.failed) =>
        /\ module_count' = module_count
        /\ running'
        /\ pc' = pc

\* C15: a module whose init returns non-zero is not registered: module_count
\* is unchanged, the editor keeps running, and no hook of that module is
\* ever called.
C15_FailedInitNotRegistered ==
    [](NoFailedHookCalled) /\ [][FailedLoadNotRegistered]_vars

\* a module loaded after the failed one has had its hook called
C15_Witness ==
    /\ last = "key"
    /\ \E f \in hooks.failed : \E id \in hooks.called : id > f

\* C16: when editor_process_key is given a key, on_key has been called with
\* that key for every enabled module that has the hook.
C16_HooksBeforeDispatch ==
    [][Dispatches =>
          /\ hooks.notified.code = last_key.code
          /\ hooks.notified.ids = EnabledOnKey
      ]_vars

C16_Witness ==
    /\ last = "key"
    /\ pc = "editor_run"
    /\ module_count = MAX_MODULES
    /\ Cardinality(hooks.notified.ids) = MAX_MODULES
    /\ hooks.notified.code = 97
    /\ Text(buffer) # <<>>

\* C17: when the editor has terminated, the console mode is the mode the
\* console had before the editor started.
C17_ConsoleRestored ==
    (pc = "exited" /\ proc.terminal_inited) => console.mode = console.orig

\* C18: an extended key (two bytes, the first 0 or 224) does not change the
\* content of the buffer.
C18_ExtendedKeyNotText ==
    [][(Dispatches /\ last_key.extended) => Text(buffer') = Text(buffer)]_vars

PromptFrame ==
    (mode = MODE_EXIT_CONFIRM /\ pc' # "exited") =>
        /\ buffer' = buffer
        /\ cursor_row' = cursor_row
        /\ cursor_col' = cursor_col
        /\ viewport' = viewport

EscCancels ==
    (Dispatches /\ mode = MODE_EXIT_CONFIRM /\ last_key.code = 27) =>
        /\ mode' = MODE_NORMAL
        /\ exit_command' = <<>>

\* C19: ESC at the exit prompt returns to normal mode with an empty exit
\* command, and while the prompt is open no step changes the buffer, the
\* cursor or the viewport offsets.
C19_EscRestores == [][PromptFrame /\ EscCancels]_vars

C19_Witness ==
    /\ last = "exit_cancelled"
    /\ mode = MODE_NORMAL
    /\ exit_command = <<>>
    /\ proc.prompt_keys >= 3
    /\ Text(buffer) # <<>>
    /\ cursor_col > 0

CompileOutcome ==
    /\ ~proc.terminal_inited
    /\ ~proc.loop_ran
    /\ proc.exit_code = 0 <=> proc.compiled

\* C20: when main reaches its compile-mode branch (-o with a value, and no
\* -h or -v read before the end of the arguments), the terminal is never
\* initialised, the loop never runs, and the exit code is 0 exactly when
\* the compilation succeeded.
C20_CompileModeExit ==
    (pc = "exited" /\ proc.compile_mode /\ ~proc.early) => CompileOutcome

C20_Witness ==
    /\ pc = "exited"
    /\ proc.compile_mode /\ ~proc.early
    /\ proc.compiled
    /\ proc.exit_code = 0

\* C20 as stated: whenever -o was given.
C20_AsStated ==
    (pc = "exited" /\ proc.compile_mode) => CompileOutcome

\* C21: when the console calls of terminal_init fail, the main loop is not
\* entered and the process exits with a non-zero code.
C21_UnusableTerminalExits ==
    (proc.terminal_inited /\ ~console.tty) =>
        /\ ~proc.loop_ran
        /\ pc = "exited" => proc.exit_code # 0

\* C26: Ctrl+Z in the main loop does what menu_callback_undo does (one
\* undo_perform on the current buffer), and Ctrl+Y what menu_callback_redo
\* does.
C26_CtrlZUndoes ==
    [][/\ last' = "ctrl_z" =>
            (buffer' = undo_perform(buffer) /\ status_message' = "Undo")
       /\ last' = "ctrl_y" =>
            (buffer' = redo_perform(buffer) /\ status_message' = "Redo")
      ]_vars

SeqInsert(t, p, c) == SubSeq(t, 1, p) \o <<c>> \o SubSeq(t, p + 1, Len(t))
SeqDelete(t, p) == SubSeq(t, 1, p) \o SubSeq(t, p + 2, Len(t))

TypedInsertRefines ==
    (/\ Defined
     /\ last' = "key"
     /\ cursor_col' = cursor_col + 1
     /\ CursorPos <= Len(Text(buffer))) =>
        /\ buffer'.fault = "none"
        /\ \E c \in Chars : Text(buffer') = SeqInsert(Text(buffer), CursorPos, c)

TypedDeleteRefines ==
    (/\ Defined
     /\ last' = "key"
     /\ cursor_col' = cursor_col - 1
     /\ CursorPos - 1 < Len(Text(buffer))) =>
        /\ buffer'.fault = "none"
        /\ Text(buffer') = SeqDelete(Text(buffer), CursorPos - 1)

\* C28: typing a character at a position 0 <= p <= length gives the text
\* with the character inserted at index p, and Backspace at a position
\* p < length gives the text with element p removed, wherever the gap lies.
C28_GapBufferRefinesSequence ==
    [][TypedInsertRefines /\ TypedDeleteRefines]_vars

\* C29: a successful search_find_next (search_find_prev) leaves the cursor
\* on a column where the pattern starts, the nearest such column strictly
\* after (before) the cursor's previous column.
C29_FindLandsOnNearest ==
    [][LET occ == Occurrences(Text(buffer), search'.pattern,
                              search'.case_sensitive)
       IN  (ret' = 1 /\ line_count = 1 /\ cursor_row = 0) =>
              /\ IsFind(last') =>
                    /\ cursor_col' \in occ
                    /\ cursor_col' > cursor_col
                    /\ \A c \in occ : c > cursor_col => c >= cursor_col'
              /\ last' = "search_find_prev" =>
                    /\ cursor_col' \in occ
                    /\ cursor_col' < cursor_col
                    /\ \A c \in occ : c < cursor_col => c <= cursor_col'
      ]_vars

\* C27: Ctrl+W with more than one tab removes the tab that was active,
\* keeps the other tabs in their order, and leaves active_tab on one of
\* them; with a single tab it changes nothing.
C27_CtrlWClosesActive ==
    [][last' = "ctrl_w" =>
          IF tab_count > 1
          THEN /\ tabs' = SubSeq(tabs, 1, active_tab)
                             \o SubSeq(tabs, active_tab + 2, tab_count)
               /\ tab_count' = tab_count - 1
               /\ active_tab' \in 0..(tab_count' - 1)
          ELSE UNCHANGED tabVars
      ]_vars

\* Row r (from 0) of a text without its line terminator.
RECURSIVE RowOf(_, _)
RowOf(text, r) ==
    LET nl == {i \in 1..Len(text) : text[i] = NEWLINE}
    IN  IF r = 0
        THEN IF nl = {} THEN text ELSE SubSeq(text, 1, Minimum(nl) - 1)
        ELSE IF nl = {} THEN <<>>
        ELSE RowOf(SubSeq(text, Minimum(nl) + 1, Len(text)), r - 1)

CursorValid(text, row, col) ==
    /\ row >= 0 /\ row < NumRows(text)
    /\ col >= 0 /\ col <= Len(RowOf(text, row))

IsCursorMove(l) ==
    l \in {"cursor_move_up", "cursor_move_down", "cursor_move_left",
           "cursor_move_right", "cursor_move_word_forward",
           "cursor_move_word_backward", "cursor_move_line_start",
           "cursor_move_line_end", "cursor_move_buffer_start",
           "cursor_move_buffer_end", "cursor_page_up", "cursor_page_down"}

\* C30: a cursor movement from a valid cursor, with line_count the number
\* of rows of the buffer, leaves the cursor valid: 0 <= cursor_row <
\* line_count and 0 <= cursor_col <= length of the row.
C30_CursorStaysInBounds ==
    [][(/\ IsCursorMove(last')
        /\ line_count = NumRows(Text(buffer))
        /\ CursorValid(Text(buffer), cursor_row, cursor_col)) =>
            CursorValid(Text(buffer), cursor_row', cursor_col')
      ]_vars

\* The offset in the text of the position (row, col).
RECURSIVE OffsetOf(_, _, _)
OffsetOf(text, row, col) ==
    IF row = 0 THEN col
    ELSE Len(RowOf(text, 0)) + 1
            + OffsetOf(SubSeq(text, Len(RowOf(text, 0)) + 2, Len(text)),
                       row - 1, col)

\* The characters between two positions, in document order.
Between(text, r1, c1, r2, c2) ==
    LET a == OffsetOf(text, r1, c1)
        b == OffsetOf(text, r2, c2)
    IN  SubSeq(text, int_min(a, b) + 1, int_max(a, b))

\* C25: copying a selection whose ends are valid positions puts into the
\* clipboard the characters between them in document order, with
\* is_line_mode false, whatever the clipboard held.
C25_CopyTakesSelection ==
    [][(/\ last' = "visual_mode_copy"
        /\ CursorValid(Text(buffer), selection.start_row, selection.start_col)
        /\ CursorValid(Text(buffer), selection.end_row, selection.end_col)) =>
            clipboard' = [content |-> Between(Text(buffer),
                                              selection.start_row,
                                              selection.start_col,
                                              selection.end_row,
                                              selection.end_col),
                          is_line_mode |-> FALSE]
      ]_vars

\* The source holds the keyword "function" not followed by an identifier.
Malformed(tokens) ==
    \E i \in 1..Len(tokens) :
        /\ tokens[i] = "function"
        /\ (i = Len(tokens) \/ tokens[i + 1] # "IDENTIFIER")

\* C22: when a malformed ESRC source has been compiled (both files could be
\* opened), esrc_compile has failed with an error count greater than 0 and
\* has left no file on disk: neither the module nor the intermediate C
\* file.
C22_MalformedLeavesNothing ==
    (/\ compiler.done
     /\ compiler.c_file # <<>>
     /\ Malformed(compiler.source)) =>
        (/\ compiler.rv # 0
         /\ compiler.error_count > 0
         /\ ~compiler.emod_exists
         /\ ~compiler.c_exists)

\* Some position of the row from index `from` on holds the two characters.
HasPair(row, from, c1, c2) ==
    \E p \in from..(Len(row) - 1) : row[p] = c1 /\ row[p + 1] = c2

\* The row opens a multi-line comment and does not close it; rows with a
\* string or a line comment are left out.
OpensComment(row) ==
    /\ \A p \in 1..Len(row) : row[p] # 34
    /\ ~HasPair(row, 1, 47, 47)
    /\ \E p \in 1..(Len(row) - 1) :
          /\ row[p] = 47 /\ row[p + 1] = 42
          /\ ~HasPair(row, p + 2, 42, 47)

\* C23: after rows have been highlighted, a multi-line comment opened on
\* row i and closed first on row j has every character of the rows between
\* them classified as comment, and the characters after the closing
\* delimiter on row j not.
C23_CommentCarriedAcrossRows ==
    (last = "render_syntax_highlighted_line") =>
        \A i \in 1..Len(highlight.rows) :
        \A j \in (i + 1)..Len(highlight.rows) :
            LET rows == highlight.rows
                classes == highlight.classes
            IN  (/\ OpensComment(rows[i])
                 /\ HasPair(rows[j], 1, 42, 47)
                 /\ \A r \in (i + 1)..(j - 1) : ~HasPair(rows[r], 1, 42, 47)) =>
                    /\ \A r \in (i + 1)..(j - 1) :
                          /\ Len(classes[r]) = Len(rows[r])
                          /\ \A k \in 1..Len(classes[r]) :
                                classes[r][k] = "comment"
                    /\ \A k \in 1..Len(classes[j]) :
                          (\E p \in 1..(k - 2) :
                                /\ rows[j][p] = 42
                                /\ rows[j][p + 1] = 47
                                /\ \A q \in (p + 2)..Len(rows[j]) :
                                      rows[j][q] # 47) =>
                              classes[j][k] # "comment"

\* C24: after the screen has been drawn, for every row of the buffer on it
\* the text drawn (the row's render form) is at least as long as the row.
\* The source keeps no highlight array: editor_refresh_screen prints the
\* rows without calling render_syntax_highlighted_line.
C24_RenderCoversRow ==
    (last = "editor_refresh_screen") =>
        \A i \in 1..Len(screen) :
            LET row == i - 1 + viewport.row_offset
            IN  row < NumRows(Text(buffer)) =>
                    Len(screen[i]) >= Len(RowOf(Text(buffer), row))

\* C31: typing a character when the gap is exhausted grows the buffer and
\* keeps the text: afterwards the buffer holds the old text with the typed
\* character inserted at some position.
C31_GrowKeepsText ==
    [][(/\ Defined
        /\ SubSz(buffer.gap_end, buffer.gap_start) = 0
        /\ last' = "key"
        /\ cursor_col' = cursor_col + 1) =>
            /\ buffer'.fault = "none"
            /\ \E c \in Chars, p \in 0..Len(Text(buffer)) :
                  Text(buffer') = SeqInsert(Text(buffer), p, c)
      ]_vars

\* (row, col) order of two cursors
CursorBefore(r1, c1, r2, c2) == r1 < r2 \/ (r1 = r2 /\ c1 < c2)

\* C32: search_replace_all terminates: every iteration of its loop that
\* replaces moves the cursor strictly forward in (row, column) order, to a
\* row below line_count and a column below the maximum line length, so the
\* loop cannot go round more than line_count * MAX_LINE_LENGTH times.
C32_ReplaceAllTerminates ==
    [][(InReplaceLoop /\ last' = "replace_iteration") =>
            /\ CursorBefore(cursor_row, cursor_col, cursor_row', cursor_col')
            /\ cursor_row' < line_count
            /\ cursor_col' < MAX_LINE_LENGTH - 1
            /\ ret' = ret + 1
      ]_vars

\* search_replace_all has returned after replacing twice by a text that
\* contains the pattern.
C32_Witness ==
    /\ last = "replace_all_done"
    /\ ret >= 2
    /\ buffer.fault = "none"
    /\ search.pattern # <<>>
    /\ \E col \in 0..(Len(search.replace_text) - 1) :
          search_match(LineFrom(search.replace_text, col), search.pattern,
                       search.case_sensitive)

\* C33: the lexer makes progress: every iteration of the loop of a read
\* function consumes a character or ends the loop, and every call of
\* esrc_lexer_next_token returns ESRC_TOKEN_EOF or consumes a character.
C33_LexerAdvances ==
    [][/\ (InLexLoop /\ lexer'.rounds = lexer.rounds + 1) =>
            (lexer'.position > lexer.position \/ lexer'.in = "none")
       /\ (lexer'.calls = lexer.calls + 1) =>
            (lexer'.in = "eof" \/ lexer'.position > lexer.position
                \/ lexer'.in # "none")
      ]_vars

C35_DisabledNotCalledOnSave ==
    [][(pc = "dispatch" /\ mode # MODE_EXIT_CONFIRM /\ last_key.code = 19) =>
        \A i \in 0..(module_count - 1) :
            ~modules[i].enabled => modules[i].id \notin hooks'.saved]_vars

C37_LineCountIsRows ==
    (file_count > 0 /\ Defined) => line_count = NumRows(Text(buffer))

\* The pointer fb is a FileBuffer that has not been freed.
Live(hp, fb) == fb \in 1..Len(hp) /\ hp[fb] = 0

\* C38: editor_cleanup leaves every tab without files and has freed each
\* FileBuffer the tabs held exactly once.
C38_CleanupClosesAll ==
    [][last' = "editor_cleanup" =>
        \A t \in 1..tab_count :
            /\ tabs'[t].file_count = 0
            /\ \A k \in 0..(tabs[t].file_count - 1) :
                   heap'[tabs[t].files[k]] = 1]_vars

\* C39: after menu_callback_close_file has closed the active file of a tab
\* that had a second file, active_file is below file_count and its slot holds
\* a FileBuffer that is not freed.
C39_ActiveFileLive ==
    [][(/\ last' = "close_file"
        /\ tabs[active_tab + 1].file_count >= 2
        /\ tabs[active_tab + 1].active_file < tabs[active_tab + 1].file_count)
       => LET tab == tabs'[active_tab + 1]
          IN  /\ tab.active_file >= 0
              /\ tab.active_file < tab.file_count
              /\ Live(heap', tab.files[tab.active_file])]_vars

====
